---- MODULE Spec2Model ----
(***************************************************************************)
(* Multiagent online dating simulator: the round-based matching engine     *)
(* (matchers.py: RandomAgentMatcher, RankedAgentMatcher), the Agent        *)
(* (agents.py) and the CompatibilityCalculator (compatibility.py).         *)
(*                                                                         *)
(* Reals are fixed-point integers with three decimals (1.0 = 1000).        *)
(* A strategy is a black box: is_interested answers TRUE or FALSE.         *)
(* A TrueSkill rating is its mean mu, an integer.                          *)
(***************************************************************************)
EXTENDS Integers, Sequences, FiniteSets, TLC

\* ------------------------------------------------------------------ bounds
\* Number of agents given to the matcher; their ids are 0..NumAgents-1.
NumAgents == 3
\* Rounds the driver runs at most.
MaxRound == 2
\* eliminate_bottom calls the driver makes at most.
MaxEliminations == 2
\* Largest like_allowance given to an agent's constructor.
MaxLikeAllowance == 2
\* Largest recommendation_limit given to a matcher's constructor.
MaxRecommendationLimit == 2

agent_ids == 0 .. (NumAgents - 1)

\* ----------------------------------------------------------------- helpers
Range(s) == {s[i] : i \in 1 .. Len(s)}

Min2(x, y) == IF x <= y THEN x ELSE y

Abs(x) == IF x < 0 THEN -x ELSE x

\* The ids of a set, ascending, as a sequence.
RECURSIVE SortedSeq(_)
SortedSeq(S) ==
    IF S = {} THEN <<>>
    ELSE LET m == CHOOSE x \in S : \A y \in S : x <= y
         IN <<m>> \o SortedSeq(S \ {m})

\* Integer square root (floor), by bisection on lo <= r < hi.
RECURSIVE Bisect(_, _, _)
Bisect(n, lo, hi) ==
    IF hi - lo <= 1 THEN lo
    ELSE LET mid == (lo + hi) \div 2
         IN IF mid * mid <= n THEN Bisect(n, mid, hi) ELSE Bisect(n, lo, mid)

ISqrt(n) == Bisect(n, 0, 46341)

\* Fixed-point square root, product and quotient, rounded to the nearest.
FSqrt(x) == (ISqrt(4 * x * 1000) + 1) \div 2

FMul(x, y) == (x * y + 500) \div 1000

FDiv(x, y) == (x * 1000 + y \div 2) \div y

\* x ^ (1 / 2^k): k square roots in a row.
RECURSIVE Root2k(_, _)
Root2k(x, k) == IF k = 0 THEN x ELSE Root2k(FSqrt(x), k - 1)

\* x ** 0.9, with 0.9 = 1/2 + 1/4 + 1/8 + 1/64 + 1/128 + 1/1024 + 1/2048 + ...
Pow09(x) ==
    FMul(FMul(FMul(Root2k(x, 1), Root2k(x, 2)), FMul(Root2k(x, 3), Root2k(x, 6))),
         FMul(Root2k(x, 7), FMul(Root2k(x, 10), Root2k(x, 11))))

\* x ** (1 / 100), with 0.01 = 1/128 + 1/512 + 1/4096 + ...
Pow001(x) == FMul(Root2k(x, 7), FMul(Root2k(x, 9), Root2k(x, 12)))

\* Mutant: no decay.
DecayFlat(k) == 100000

\* 0.999 ** k, five decimals (1.0 = 100000).
RECURSIVE Decay(_)
Decay(k) == IF k = 0 THEN 100000 ELSE (Decay(k - 1) * 999) \div 1000

\* ------------------------------------------------- CompatibilityCalculator
\* The calculator of the docstring's example: two equally weighted attributes,
\* the first rewarding a mismatch and the second a match.
attribute_weights == <<500, 500>>

attribute_match_rewards ==
    << [b \in BOOLEAN |-> IF b THEN 750 ELSE 1250],
       [b \in BOOLEAN |-> IF b THEN 1250 ELSE 750] >>

\* Mutant: the reward is chosen by the first agent's attribute alone.
RECURSIVE CompatibilitySumByFirst(_, _, _, _, _)
CompatibilitySumByFirst(weights, rewards, type_1, type_2, i) ==
    IF i > Len(type_1) THEN 0
    ELSE FMul(rewards[i][type_1[i] = 1], weights[i])
         + CompatibilitySumByFirst(weights, rewards, type_1, type_2, i + 1)

RECURSIVE CompatibilitySum(_, _, _, _, _)
CompatibilitySum(weights, rewards, type_1, type_2, i) ==
    IF i > Len(type_1) THEN 0
    ELSE FMul(rewards[i][type_1[i] = type_2[i]], weights[i])
         + CompatibilitySum(weights, rewards, type_1, type_2, i + 1)

\* get_compatibility: one term per position of type_1.
GetCompatibility(weights, rewards, type_1, type_2) ==
    CompatibilitySum(weights, rewards, type_1, type_2, 1)

\* ------------------------------------------------------------------- Agent
\* Agent.__init__ once the random draws (gender, attractiveness, estimate,
\* premium, impostor) are made.
\* Mutant: the allowance is doubled for remaining_likes, whoever the agent is.
AgentInitDoubled(observable, hidden, like_allowance, gender, attractiveness, estimated, is_premium, is_impostor) ==
    [ gender |-> gender,
      attractiveness |-> attractiveness,
      estimated_attractiveness |-> estimated,
      is_premium |-> is_premium,
      is_impostor |-> is_impostor,
      observable_attributes |-> observable,
      hidden_attributes |-> hidden,
      like_allowance |-> IF is_premium THEN like_allowance * 2 ELSE like_allowance,
      remaining_likes |-> like_allowance * 2,
      liked |-> {},
      passed |-> {},
      matched |-> {},
      match_count |-> 0,
      happiness |-> 0,
      history |-> <<>> ]

AgentInit(observable, hidden, like_allowance, gender, attractiveness, estimated, is_premium, is_impostor) ==
    [ gender |-> gender,
      attractiveness |-> attractiveness,
      estimated_attractiveness |-> estimated,
      is_premium |-> is_premium,
      is_impostor |-> is_impostor,
      observable_attributes |-> observable,
      hidden_attributes |-> hidden,
      like_allowance |-> IF is_premium THEN like_allowance * 2 ELSE like_allowance,
      remaining_likes |-> like_allowance,
      liked |-> {},
      passed |-> {},
      matched |-> {},
      match_count |-> 0,
      happiness |-> 0,
      history |-> <<>> ]

\* The bounds of the truncated normal estimate_self_attractiveness draws from.
EstimationMin(attractiveness) == (3 * attractiveness) \div 4 + 250

EstimationMax(attractiveness) == (3 * attractiveness) \div 8 + 3125

\* Mutant: only the liked candidates count as assessed.
GetAssessedCandidatesLikedOnly(agent) == agent.liked

GetAssessedCandidates(agent) == agent.liked \cup agent.passed

\* Mutant: zero whenever exactly one of the two is an impostor.
HappinessIsComputedBothWays(self, matched_agent) ==
    self.is_impostor = matched_agent.is_impostor

\* The impostor test of calculate_happiness: the branch that computes a value.
HappinessIsComputed(self, matched_agent) ==
    self.is_impostor \/ (~self.is_impostor /\ ~matched_agent.is_impostor)

\* The compatibility calculate_happiness asks for: each type is a list that
\* holds one element, the concatenated list.
HappinessCompatibility(self, matched_agent) ==
    GetCompatibility(attribute_weights, attribute_match_rewards,
        << self.observable_attributes \o self.hidden_attributes >>,
        << matched_agent.observable_attributes \o matched_agent.hidden_attributes >>)

\* The value of the computing branch of calculate_happiness.
ComputedHappiness(self, matched_agent) ==
    LET compatibility == HappinessCompatibility(self, matched_agent)
        happiness ==
            Pow09(FMul(matched_agent.attractiveness, compatibility) + 2000) - 1000
        difference ==
            matched_agent.attractiveness - self.estimated_attractiveness
        discomfort_divisor ==
            FDiv(5000 - self.estimated_attractiveness,
                 5 * self.estimated_attractiveness) + Pow001(difference)
    IN IF self.gender = "Female" /\ difference > 0
       THEN FDiv(happiness, discomfort_divisor)
       ELSE happiness

CalculateHappiness(self, matched_agent) ==
    IF HappinessIsComputed(self, matched_agent)
    THEN ComputedHappiness(self, matched_agent)
    ELSE 0

\* Mutant: match_count is set to one instead of incremented.
GetMatchedCountsOnce(self, matched_id, matched_agent) ==
    LET count == 1
    IN [self EXCEPT
          !.match_count = count,
          !.matched = @ \cup {matched_id},
          !.happiness =
              @ + (CalculateHappiness(self, matched_agent) * Decay(count)) \div 100000]

\* get_matched, on the agent's own fields (the strategy's match_callback is
\* counted by the caller).
GetMatched(self, matched_id, matched_agent) ==
    LET count == self.match_count + 1
    IN [self EXCEPT
          !.match_count = count,
          !.matched = @ \cup {matched_id},
          !.happiness =
              @ + (CalculateHappiness(self, matched_agent) * Decay(count)) \div 100000]

\* The product get_matched adds to the happiness, before it is rounded to the
\* happiness's three decimals: match_count is the count after the increment.
DecayedHappiness(self, matched_agent, match_count) ==
    CalculateHappiness(self, matched_agent) * Decay(match_count)

\* The attributes log_state can read from the agent (hasattr).
HasAttr(self, variable) == variable \in DOMAIN self

\* Mutant: every log_state starts the variable's dictionary anew.
RECURSIVE LogStateStartsAnew(_, _, _)
LogStateStartsAnew(self, log_id, logged_variables) ==
    IF logged_variables = <<>> THEN self
    ELSE LET variable == Head(logged_variables)
             logged ==
                 IF ~HasAttr(self, variable) THEN self
                 ELSE [self EXCEPT !.history =
                          (variable :> (log_id :> self[variable])) @@ @]
         IN LogStateStartsAnew(logged, log_id, Tail(logged_variables))

\* log_state, one variable after the other.
RECURSIVE LogState(_, _, _)
LogState(self, log_id, logged_variables) ==
    IF logged_variables = <<>> THEN self
    ELSE LET variable == Head(logged_variables)
             logged ==
                 IF ~HasAttr(self, variable) THEN self
                 ELSE IF variable \notin DOMAIN self.history
                 THEN [self EXCEPT !.history = @ @@ (variable :> (log_id :> self[variable]))]
                 ELSE [self EXCEPT !.history[variable] =
                                      (log_id :> self[variable]) @@ @]
         IN LogState(logged, log_id, Tail(logged_variables))

\* Mutant: the loop does not stop when the allowance is used up.
RECURSIVE AssessLoopNoStop(_, _, _, _, _, _, _)
AssessLoopNoStop(candidates, answers, i, remaining, liked, passed, consulted) ==
    IF i > Len(candidates)
    THEN [remaining_likes |-> remaining, liked |-> liked, passed |-> passed,
          consulted |-> consulted]
    ELSE IF answers[candidates[i]]
         THEN AssessLoopNoStop(candidates, answers, i + 1, remaining - 1,
                               liked \cup {candidates[i]}, passed, consulted + 1)
         ELSE AssessLoopNoStop(candidates, answers, i + 1, remaining,
                               liked, passed \cup {candidates[i]}, consulted + 1)

\* Mutant: once the allowance is used up, the candidates left are passed.
RECURSIVE AssessLoopPassRest(_, _, _, _, _, _, _)
AssessLoopPassRest(candidates, answers, i, remaining, liked, passed, consulted) ==
    IF i > Len(candidates)
    THEN [remaining_likes |-> remaining, liked |-> liked, passed |-> passed,
          consulted |-> consulted]
    ELSE IF remaining < 1
         THEN AssessLoopPassRest(candidates, answers, i + 1, remaining,
                                 liked, passed \cup {candidates[i]}, consulted)
    ELSE IF answers[candidates[i]]
         THEN AssessLoopPassRest(candidates, answers, i + 1, remaining - 1,
                                 liked \cup {candidates[i]}, passed, consulted + 1)
         ELSE AssessLoopPassRest(candidates, answers, i + 1, remaining,
                                 liked, passed \cup {candidates[i]}, consulted + 1)

\* The loop of assess_candidates from position i on; answers[c] is what the
\* strategy says about candidate c when it is asked.
RECURSIVE AssessLoop(_, _, _, _, _, _, _)
AssessLoop(candidates, answers, i, remaining, liked, passed, consulted) ==
    IF i > Len(candidates) \/ remaining < 1
    THEN [remaining_likes |-> remaining, liked |-> liked, passed |-> passed,
          consulted |-> consulted]
    ELSE IF answers[candidates[i]]
         THEN AssessLoop(candidates, answers, i + 1, remaining - 1,
                         liked \cup {candidates[i]}, passed, consulted + 1)
         ELSE AssessLoop(candidates, answers, i + 1, remaining,
                         liked, passed \cup {candidates[i]}, consulted + 1)

\* assess_candidates: the agent afterwards, the returned sets, and how many
\* times the strategy was consulted.
AssessCandidates(self, candidates, answers) ==
    LET r == AssessLoop(candidates, answers, 1, self.remaining_likes, {}, {}, 0)
    IN [ agent |-> [self EXCEPT !.remaining_likes = r.remaining_likes,
                                !.liked = @ \cup r.liked,
                                !.passed = @ \cup r.passed],
         liked |-> r.liked,
         passed |-> r.passed,
         consulted |-> r.consulted,
         candidates_details |-> candidates ]

\* ------------------------------------------------------------------- state
VARIABLES
    config,              \* the matcher's class and constructor arguments
    agents,              \* self.agents: id -> the Agent's fields
    round,               \* self.round
    matrix,              \* self.matrix: <<row, col>> -> 0 (unset), 1 (liked), -1 (passed)
    waiting_matches,     \* self.waiting_matches: pairs <<low id, high id>>
    eliminated_agents,   \* self.eliminated_agents
    ratings,             \* self.ratings: id -> mu (RankedAgentMatcher)
    rating_logs,         \* self.rating_logs: id -> (round -> mu) (RankedAgentMatcher)
    round_likes,         \* run_new_round's round_likes of the latest round
    round_passes,        \* run_new_round's round_passes of the latest round
    candidates_details,  \* id -> the candidates given to assess_candidates, latest round
    consulted,           \* id -> is_interested calls in the latest round
    new_round_calls,     \* id -> new_round_callback calls so far
    get_matched_calls,   \* <<a, b>> -> get_matched calls on a with b so far
    last_call,           \* the driver's latest call and its arguments
    eliminations,        \* eliminate_bottom calls so far
    call                 \* the pure function applied, its arguments and value

vars ==
    << config, agents, round, matrix, waiting_matches, eliminated_agents, ratings,
       rating_logs,
       round_likes, round_passes, candidates_details, consulted, new_round_calls,
       get_matched_calls, last_call, eliminations, call >>

\* ----------------------------------------------------------------- ratings
\* TrueSkill's prior mean: Rating().mu = 25.
PriorMu == 25

\* rate_1vs1(winner, loser, drawn) on the means: a win moves the winner up and
\* the loser down, by more when it was not expected; a draw moves the two means
\* towards each other and leaves equal means alone.
Rate1vs1(winner, loser, drawn) ==
    IF drawn
    THEN IF winner > loser THEN <<winner - 1, loser + 1>>
         ELSE IF winner < loser THEN <<winner + 1, loser - 1>>
         ELSE <<winner, loser>>
    ELSE IF winner > loser THEN <<winner + 1, loser - 1>>
         ELSE <<winner + 2, loser - 2>>

\* ----------------------------------------------------------------- matcher
\* Mutant: the agents come with the highest id first.
RECURSIVE GetAgentsByIdsDescending(_)
GetAgentsByIdsDescending(ids) ==
    IF ids \cap agent_ids = {} THEN <<>>
    ELSE LET m == CHOOSE x \in ids \cap agent_ids : \A y \in ids \cap agent_ids : y <= x
         IN <<m>> \o GetAgentsByIdsDescending(ids \ {m})

\* get_agents_by_ids: the agents of self.agents, in its order, whose id is in ids.
GetAgentsByIds(ids) == SortedSeq(ids \cap agent_ids)

\* Mutant: the agent's assessed candidates are not taken out.
AllAvailableSeenAgain(a) == agent_ids \ ({a} \cup eliminated_agents)

\* Mutant: the eliminated agents are not taken out.
AllAvailableWithEliminated(a) == (agent_ids \ GetAssessedCandidates(agents[a])) \ {a}

\* Mutant: the agent itself is not taken out.
AllAvailableWithSelf(a) ==
    (agent_ids \ GetAssessedCandidates(agents[a])) \ eliminated_agents

\* The set both get_available_candidates start from.
AllAvailable(a) ==
    (agent_ids \ GetAssessedCandidates(agents[a])) \ ({a} \cup eliminated_agents)

\* RandomAgentMatcher.get_available_candidates.
RandomGetAvailableCandidates(a) == AllAvailable(a)

\* Mutant: the closest mean first (reverse=False).
RECURSIVE SortedRatingsAscending(_, _)
SortedRatingsAscending(a, S) ==
    IF S = {} THEN <<>>
    ELSE LET first == CHOOSE x \in S : \A y \in S :
                        \/ Abs(ratings[x] - ratings[a]) < Abs(ratings[y] - ratings[a])
                        \/ /\ Abs(ratings[x] - ratings[a]) = Abs(ratings[y] - ratings[a])
                           /\ x <= y
         IN <<first>> \o SortedRatingsAscending(a, S \ {first})

\* sorted(..., key=distance, reverse=True) over the available ids in ascending
\* order: farthest mean first, equal distances in ascending id order (stable).
RECURSIVE SortedRatings(_, _)
SortedRatings(a, S) ==
    IF S = {} THEN <<>>
    ELSE LET first == CHOOSE x \in S : \A y \in S :
                        \/ Abs(ratings[x] - ratings[a]) > Abs(ratings[y] - ratings[a])
                        \/ /\ Abs(ratings[x] - ratings[a]) = Abs(ratings[y] - ratings[a])
                           /\ x <= y
         IN <<first>> \o SortedRatings(a, S \ {first})

\* Mutant: the sample is drawn with replacement (random.choices).
RECURSIVE SamplesWithReplacement(_, _)
SamplesWithReplacement(S, k) ==
    IF k = 0 THEN {<<>>}
    ELSE UNION {{<<x>> \o t : t \in SamplesWithReplacement(S, k - 1)} : x \in S}

\* The sequences random.sample(list, k) can return.
RECURSIVE Samples(_, _)
Samples(S, k) ==
    IF k = 0 THEN {<<>>}
    ELSE UNION {{<<x>> \o t : t \in Samples(S \ {x}, k - 1)} : x \in S}

\* RankedAgentMatcher.get_available_candidates: the lists it can return.
RankedGetAvailableCandidates(a) ==
    LET sorted_ratings == SortedRatings(a, AllAvailable(a))
        n == Len(sorted_ratings)
    IN IF config.strict_recommendations
       THEN {SubSeq(sorted_ratings, 1, Min2(n, config.recommendation_limit))}
       ELSE Samples(
              Range(SubSeq(sorted_ratings, 1,
                           Min2(n, (config.recommendation_limit * 3) \div 2))),
              Min2(n, config.recommendation_limit))

\* Mutant: eliminated agents the agent has not assessed are recommended too.
RecommendedCandidatesWithEliminated(a) ==
    LET available == (agent_ids \ GetAssessedCandidates(agents[a])) \ {a}
        n_recommend == Min2(config.recommendation_limit, Cardinality(available))
    IN {GetAgentsByIds(Range(s)) : s \in Samples(available, n_recommend)}

\* The candidates_details run_new_round can hand to assess_candidates for agent a:
\* a sample of n_recommend of the available candidates, in self.agents order.
RecommendedCandidates(a) ==
    IF config.variant = "random"
    THEN LET available == RandomGetAvailableCandidates(a)
             n_recommend == Min2(config.recommendation_limit, Cardinality(available))
         IN {GetAgentsByIds(Range(s)) : s \in Samples(available, n_recommend)}
    ELSE UNION {
           LET n_recommend == Min2(config.recommendation_limit, Len(available))
           IN {GetAgentsByIds(Range(s)) : s \in Samples(Range(available), n_recommend)}
           : available \in RankedGetAvailableCandidates(a)}

\* Mutant: the allowance is not replenished.
AgentTurnsAllowanceKept(a) ==
    UNION {{AssessCandidates(agents[a], c, answers) : answers \in [Range(c) -> BOOLEAN]}
           : c \in RecommendedCandidates(a)}

\* One agent's turn in the loop of run_new_round after the callback: the
\* allowance is reset, candidates are drawn and assessed.
AgentTurns(a) ==
    LET self == [agents[a] EXCEPT !.remaining_likes = agents[a].like_allowance]
    IN UNION {{AssessCandidates(self, c, answers) : answers \in [Range(c) -> BOOLEAN]}
              : c \in RecommendedCandidates(a)}

\* Mutant: the loop skips nobody.
NobodySkipped == agent_ids

\* The agents the loop of run_new_round does not skip.
NotSkipped == agent_ids \ eliminated_agents

\* Every way the loop of run_new_round can go for the agents of S.
RECURSIVE Collect(_)
Collect(S) ==
    IF S = {} THEN {<<>>}
    ELSE LET a == CHOOSE x \in S : \A y \in S : x <= y
         IN {(a :> t) @@ rest : t \in AgentTurns(a), rest \in Collect(S \ {a})}

\* tuple(sorted([a, b])).
SortedPair(a, b) == IF a <= b THEN <<a, b>> ELSE <<b, a>>

\* Mutant: the mutual-like test reads the cell of a pass.
RandomLikeMatchesPass(s, agent_id, liked_id) ==
    LET m == [s.matrix EXCEPT ![<<agent_id, liked_id>>] = 1]
    IN [s EXCEPT !.matrix = m,
                 !.waiting_matches =
                     IF m[<<liked_id, agent_id>>] = -1
                     THEN @ \cup {SortedPair(agent_id, liked_id)} ELSE @]

\* The body of RandomAgentMatcher.process_likes' inner loop, on
\* s = [matrix, ratings, waiting_matches].
RandomLike(s, agent_id, liked_id) ==
    LET m == [s.matrix EXCEPT ![<<agent_id, liked_id>>] = 1]
    IN [s EXCEPT !.matrix = m,
                 !.waiting_matches =
                     IF m[<<liked_id, agent_id>>] = 1
                     THEN @ \cup {SortedPair(agent_id, liked_id)} ELSE @]

\* Mutant: the mutual-like test comes first, and a like that completes a match
\* is not rated.
RankedLikeMatchFirst(s, agent_id, liked_id) ==
    LET m == [s.matrix EXCEPT ![<<agent_id, liked_id>>] = 1]
        rated == Rate1vs1(s.ratings[liked_id], s.ratings[agent_id], config.likes_as_draws)
        r1 == [s.ratings EXCEPT ![liked_id] = rated[1]]
        r2 == [r1 EXCEPT ![agent_id] = rated[2]]
    IN IF m[<<liked_id, agent_id>>] = 1
       THEN [s EXCEPT !.matrix = m,
                      !.waiting_matches = @ \cup {SortedPair(agent_id, liked_id)}]
       ELSE [s EXCEPT !.matrix = m, !.ratings = r2]

\* The body of RankedAgentMatcher.process_likes' inner loop: the cell, the
\* rating update (the liked agent wins, or draws), then the mutual-like test.
RankedLike(s, agent_id, liked_id) ==
    LET m == [s.matrix EXCEPT ![<<agent_id, liked_id>>] = 1]
        rated == Rate1vs1(s.ratings[liked_id], s.ratings[agent_id], config.likes_as_draws)
        r1 == [s.ratings EXCEPT ![liked_id] = rated[1]]
        r2 == [r1 EXCEPT ![agent_id] = rated[2]]
    IN [s EXCEPT !.matrix = m,
                 !.ratings = r2,
                 !.waiting_matches =
                     IF m[<<liked_id, agent_id>>] = 1
                     THEN @ \cup {SortedPair(agent_id, liked_id)} ELSE @]

\* Mutant: a pass leaves no trace in the matrix.
RandomPassUnrecorded(s, agent_id, passed_id) == s

\* The body of RandomAgentMatcher.process_passes' inner loop.
RandomPass(s, agent_id, passed_id) ==
    [s EXCEPT !.matrix[<<agent_id, passed_id>>] = -1]

\* Mutant: the two gates are one; a pass is rated only when both credit-from-lower
\* and credit-from-higher are enabled.
RankedPassGatesCoupled(s, agent_id, passed_id) ==
    LET s1 == [s EXCEPT !.matrix[<<agent_id, passed_id>>] = -1]
        rated == Rate1vs1(s.ratings[agent_id], s.ratings[passed_id], FALSE)
        r1 == [s.ratings EXCEPT ![passed_id] = rated[2]]
        r2 == [r1 EXCEPT ![agent_id] = rated[1]]
    IN IF ~config.rank_passes THEN s1
       ELSE IF (~config.rank_pass_from_lower \/ ~config.rank_pass_from_higher)
               /\ s.ratings[agent_id] # s.ratings[passed_id] THEN s1
       ELSE [s1 EXCEPT !.ratings = r2]

\* The body of RankedAgentMatcher.process_passes' inner loop: the cell, then
\* the rating update (the passing agent wins) unless a gate skips it.
RankedPass(s, agent_id, passed_id) ==
    LET s1 == [s EXCEPT !.matrix[<<agent_id, passed_id>>] = -1]
        rated == Rate1vs1(s.ratings[agent_id], s.ratings[passed_id], FALSE)
        r1 == [s.ratings EXCEPT ![passed_id] = rated[2]]
        r2 == [r1 EXCEPT ![agent_id] = rated[1]]
    IN IF ~config.rank_passes THEN s1
       ELSE IF ~config.rank_pass_from_lower
               /\ s.ratings[agent_id] < s.ratings[passed_id] THEN s1
       ELSE IF ~config.rank_pass_from_higher
               /\ s.ratings[agent_id] > s.ratings[passed_id] THEN s1
       ELSE [s1 EXCEPT !.ratings = r2]

\* One like or pass, by the matcher's class.
Interact(s, kind, agent_id, other_id) ==
    IF kind = "like"
    THEN IF config.variant = "random" THEN RandomLike(s, agent_id, other_id)
         ELSE RankedLike(s, agent_id, other_id)
    ELSE IF config.variant = "random" THEN RandomPass(s, agent_id, other_id)
         ELSE RankedPass(s, agent_id, other_id)

\* The orders a loop can visit the members of S in: a dict of the agents in
\* insertion order and a set (RandomAgentMatcher), a shuffled list (Ranked).
NextInLoop(S) ==
    IF config.variant = "random" THEN {CHOOSE x \in S : \A y \in S : x <= y} ELSE S

\* The inner loop of process_likes / process_passes: the states it can end in.
RECURSIVE InnerLoop(_, _, _, _)
InnerLoop(s, kind, agent_id, targets) ==
    IF targets = {} THEN {s}
    ELSE UNION {InnerLoop(Interact(s, kind, agent_id, t), kind, agent_id, targets \ {t})
                : t \in NextInLoop(targets)}

\* The outer loop of process_likes / process_passes over the agents of D.
RECURSIVE OuterLoop(_, _, _, _)
OuterLoop(s, kind, sets, D) ==
    IF D = {} THEN {s}
    ELSE UNION {UNION {OuterLoop(s1, kind, sets, D \ {a})
                       : s1 \in InnerLoop(s, kind, a, sets[a])}
                : a \in NextInLoop(D)}

ProcessLikes(s, likes) == OuterLoop(s, "like", likes, DOMAIN likes)

ProcessPasses(s, passes) == OuterLoop(s, "pass", passes, DOMAIN passes)

\* Mutant: only the first agent of the pair is told.
MatchPairOneSided(m, pair) ==
    LET a1 == pair[1]
        a2 == pair[2]
    IN [agents |-> [m.agents EXCEPT ![a1] = GetMatched(@, a2, m.agents[a2])],
        get_matched_calls |-> [m.get_matched_calls EXCEPT ![<<a1, a2>>] = @ + 1]]

\* The body of process_matches' loop, on m = [agents, get_matched_calls]:
\* agent_1.get_matched(agent_2), then agent_2.get_matched(agent_1).
MatchPair(m, pair) ==
    LET a1 == pair[1]
        a2 == pair[2]
        ag1 == [m.agents EXCEPT ![a1] = GetMatched(@, a2, m.agents[a2])]
        ag2 == [ag1 EXCEPT ![a2] = GetMatched(@, a1, ag1[a1])]
        c1 == [m.get_matched_calls EXCEPT ![<<a1, a2>>] = @ + 1]
        c2 == [c1 EXCEPT ![<<a2, a1>>] = @ + 1]
    IN [agents |-> ag2, get_matched_calls |-> c2]

\* process_matches: the loop over the set self.waiting_matches, in any order.
RECURSIVE ProcessMatches(_, _)
ProcessMatches(m, waiting) ==
    IF waiting = {} THEN {m}
    ELSE UNION {ProcessMatches(MatchPair(m, pair), waiting \ {pair}) : pair \in waiting}

\* Mutant: nothing is logged once every agent is eliminated.
LogAgentsUnlessAllEliminated(ags, log_id) ==
    IF eliminated_agents = agent_ids THEN ags
    ELSE [a \in agent_ids |-> LogState(ags[a], log_id, <<"match_count", "happiness">>)]

\* Mutant: the snapshot holds the match_count and happiness the agents had
\* before the round's matches were resolved.
LogAgentsBeforeMatches(ags, log_id) ==
    [a \in agent_ids |->
       [ags[a] EXCEPT !.history =
          LogState([ags[a] EXCEPT !.match_count = agents[a].match_count,
                                  !.happiness = agents[a].happiness],
                   log_id, <<"match_count", "happiness">>).history]]

\* log_agents: every agent of self.agents logs match_count and happiness.
LogAgents(ags, log_id) ==
    [a \in agent_ids |-> LogState(ags[a], log_id, <<"match_count", "happiness">>)]

\* RankedAgentMatcher.log_agents' rating log.
LogRatings(logs, rts, log_id) ==
    [a \in agent_ids |-> (log_id :> rts[a]) @@ logs[a]]

\* The values metric[a], a in S, ascending (np.percentile sorts its input).
RECURSIVE SortedValues(_, _)
SortedValues(metric, S) ==
    IF S = {} THEN <<>>
    ELSE LET a == CHOOSE x \in S : \A y \in S : metric[x] <= metric[y]
         IN <<metric[a]>> \o SortedValues(metric, S \ {a})

\* np.percentile(values, q), linear interpolation, times 100: the value at the
\* virtual index (n - 1) * q / 100 of the sorted values.
Percentile100(sorted, q) ==
    LET n == Len(sorted)
        lo == ((n - 1) * q) \div 100
        frac == ((n - 1) * q) % 100
        hi == Min2(lo + 1, n - 1)
    IN 100 * sorted[lo + 1] + frac * (sorted[hi + 1] - sorted[lo + 1])

\* Mutant: only the agents strictly below the percentile are eliminated.
EliminatedByStrictlyBelow(ids, eliminated, metric, bottom_threshold) ==
    LET threshold_value100 ==
            Percentile100(SortedValues(metric, ids \ eliminated), bottom_threshold)
    IN eliminated \cup {a \in ids : 100 * metric[a] < threshold_value100}

\* Mutant: the percentile is taken over every agent, the eliminated included.
EliminatedByOverEverybody(ids, eliminated, metric, bottom_threshold) ==
    LET threshold_value100 ==
            Percentile100(SortedValues(metric, ids), bottom_threshold)
    IN eliminated \cup {a \in ids : 100 * metric[a] <= threshold_value100}

\* eliminate_bottom's two steps: the percentile of the metric over the agents not
\* yet eliminated, then every agent at or below it joins the eliminated.
EliminatedBy(ids, eliminated, metric, bottom_threshold) ==
    LET threshold_value100 ==
            Percentile100(SortedValues(metric, ids \ eliminated), bottom_threshold)
    IN eliminated \cup {a \in ids : 100 * metric[a] <= threshold_value100}

\* The metric eliminate_bottom ranks by.
Metric(using_ratings) ==
    IF using_ratings THEN ratings ELSE [a \in agent_ids |-> agents[a].happiness]

\* ------------------------------------------------------------------ inputs
\* The options a RankedAgentMatcher is constructed with.
RankedOptions ==
    { [strict_recommendations |-> TRUE, likes_as_draws |-> FALSE, rank_passes |-> TRUE,
       rank_pass_from_lower |-> TRUE, rank_pass_from_higher |-> TRUE],
      [strict_recommendations |-> FALSE, likes_as_draws |-> TRUE, rank_passes |-> TRUE,
       rank_pass_from_lower |-> FALSE, rank_pass_from_higher |-> TRUE],
      [strict_recommendations |-> TRUE, likes_as_draws |-> FALSE, rank_passes |-> TRUE,
       rank_pass_from_lower |-> TRUE, rank_pass_from_higher |-> FALSE],
      [strict_recommendations |-> TRUE, likes_as_draws |-> FALSE, rank_passes |-> FALSE,
       rank_pass_from_lower |-> TRUE, rank_pass_from_higher |-> TRUE] }

\* RandomAgentMatcher has none of the options; its config carries the defaults.
DefaultOptions ==
    [strict_recommendations |-> TRUE, likes_as_draws |-> FALSE, rank_passes |-> TRUE,
     rank_pass_from_lower |-> TRUE, rank_pass_from_higher |-> TRUE]

MatcherConfig(variant, recommendation_limit, o) ==
    [variant |-> variant, recommendation_limit |-> recommendation_limit,
     strict_recommendations |-> o.strict_recommendations,
     likes_as_draws |-> o.likes_as_draws, rank_passes |-> o.rank_passes,
     rank_pass_from_lower |-> o.rank_pass_from_lower,
     rank_pass_from_higher |-> o.rank_pass_from_higher]

Configs ==
    {MatcherConfig("random", l, DefaultOptions) : l \in 1 .. MaxRecommendationLimit}
    \cup {MatcherConfig("ranked", l, o) : l \in 1 .. MaxRecommendationLimit,
                                          o \in RankedOptions}

\* The populations the driver builds: the like_allowance it gives every agent,
\* and who Agent.__init__ draws to be premium and to be an impostor.
Populations ==
    { [like_allowance |-> 1, premium |-> {1}, impostors |-> {}],
      [like_allowance |-> MaxLikeAllowance, premium |-> {}, impostors |-> {0}] }

\* Percentiles the driver eliminates by.
Thresholds == {0, 50, 100}

\* The population the driver builds: agent a's traits.
Attractiveness(a) == 1000 + 1000 * ((a + 1) % 5)

NewAgent(a, like_allowance, premium, impostors) ==
    AgentInit(<<a % 2>>, <<0>>, like_allowance,
              IF a % 2 = 1 THEN "Female" ELSE "Male",
              Attractiveness(a),
              (EstimationMin(Attractiveness(a)) + EstimationMax(Attractiveness(a))) \div 2,
              a \in premium, a \in impostors)

NoCall == [fn |-> "none"]

\* ------------------------------------------------------------- the matcher
\* RandomAgentMatcher.__init__ / RankedAgentMatcher.__init__ on new agents.
MatcherInit(cfg, pop) ==
    /\ config = cfg
    /\ agents = [a \in agent_ids |-> NewAgent(a, pop.like_allowance, pop.premium, pop.impostors)]
    /\ round = 0
    /\ matrix = [p \in agent_ids \X agent_ids |-> 0]
    /\ waiting_matches = {}
    /\ eliminated_agents = {}
    /\ ratings = [a \in agent_ids |-> PriorMu]
    /\ rating_logs = [a \in agent_ids |-> <<>>]
    /\ round_likes = <<>>
    /\ round_passes = <<>>
    /\ candidates_details = [a \in agent_ids |-> <<>>]
    /\ consulted = [a \in agent_ids |-> 0]
    /\ new_round_calls = [a \in agent_ids |-> 0]
    /\ get_matched_calls = [p \in agent_ids \X agent_ids |-> 0]
    /\ last_call = [op |-> "init"]
    /\ eliminations = 0

Init ==
    /\ \E cfg \in Configs, p \in Populations : MatcherInit(cfg, p)
    /\ call = NoCall

\* run_new_round, from the increment of the round to log_agents.
RunNewRoundBefore(last_round) ==
    /\ round < last_round
    /\ \E turns \in Collect(NotSkipped) :
         LET collected == [a \in agent_ids |->
                             IF a \in DOMAIN turns THEN turns[a].agent ELSE agents[a]]
             likes == [a \in DOMAIN turns |-> turns[a].liked]
             passes == [a \in DOMAIN turns |-> turns[a].passed]
             s0 == [matrix |-> matrix, ratings |-> ratings,
                    waiting_matches |-> waiting_matches]
         IN \E s1 \in ProcessLikes(s0, likes) :
            \E s2 \in ProcessPasses(s1, passes) :
            \E m \in ProcessMatches([agents |-> collected,
                                     get_matched_calls |-> get_matched_calls],
                                    s2.waiting_matches) :
               /\ round' = round + 1
               /\ agents' = LogAgents(m.agents, round + 1)
               /\ get_matched_calls' = m.get_matched_calls
               /\ matrix' = s2.matrix
               /\ ratings' = s2.ratings
               /\ waiting_matches' = {}
               /\ rating_logs' = IF config.variant = "ranked"
                                 THEN LogRatings(rating_logs, s2.ratings, round + 1)
                                 ELSE rating_logs
               /\ round_likes' = likes
               /\ round_passes' = passes
               /\ candidates_details' =
                     [a \in agent_ids |->
                        IF a \in DOMAIN turns THEN turns[a].candidates_details ELSE <<>>]
               /\ consulted' =
                     [a \in agent_ids |->
                        IF a \in DOMAIN turns THEN turns[a].consulted ELSE 0]
               /\ new_round_calls' =
                     [a \in agent_ids |->
                        IF a \in DOMAIN turns THEN new_round_calls[a] + 1
                        ELSE new_round_calls[a]]
    /\ last_call' = [op |-> "run_new_round"]
    /\ UNCHANGED <<config, eliminated_agents, eliminations, call>>

\* run_new_round, for MaxRound rounds.
RunNewRound == RunNewRoundBefore(MaxRound)

\* eliminate_bottom(bottom_threshold, using_ratings) with agents left to rank.
EliminateBottom ==
    /\ eliminations < MaxEliminations
    /\ agent_ids \ eliminated_agents # {}
    /\ \E bottom_threshold \in Thresholds,
          using_ratings \in (IF config.variant = "ranked" THEN BOOLEAN ELSE {FALSE}) :
          /\ eliminated_agents' =
                EliminatedBy(agent_ids, eliminated_agents, Metric(using_ratings),
                             bottom_threshold)
          /\ last_call' = [op |-> "eliminate_bottom", bottom_threshold |-> bottom_threshold,
                           using_ratings |-> using_ratings]
    /\ eliminations' = eliminations + 1
    /\ UNCHANGED <<config, agents, round, matrix, waiting_matches, ratings, rating_logs,
                   round_likes, round_passes, candidates_details, consulted,
                   new_round_calls, get_matched_calls, call>>

\* eliminate_bottom with every agent eliminated: np.percentile of an empty list
\* returns nan (nothing compares at or below it) or raises, by numpy's version.
EliminateBottomEmpty ==
    /\ eliminations < MaxEliminations
    /\ agent_ids \ eliminated_agents = {}
    /\ \E raised \in BOOLEAN :
          last_call' = [op |-> "eliminate_bottom_empty", raised |-> raised]
    /\ eliminations' = eliminations + 1
    /\ UNCHANGED <<config, agents, round, matrix, waiting_matches, eliminated_agents,
                   ratings, rating_logs, round_likes, round_passes, candidates_details,
                   consulted, new_round_calls, get_matched_calls, call>>

Next == RunNewRound \/ EliminateBottom \/ EliminateBottomEmpty

Spec == Init /\ [][Next]_vars

\* get_info.
GetInfo ==
    [name |-> IF config.variant = "random" THEN "Random Agent Matcher"
              ELSE "Ranked Agent Matcher",
     agents |-> Cardinality(agent_ids),
     rounds |-> round,
     recommendation_limit |-> config.recommendation_limit]

\* --------------------------------------------------- a strategy that raises
\* Mutant: new_round_callback is called after assess_candidates, so that it has
\* not been called when is_interested raises.
RaisingTurnsHookLast(k) ==
    UNION {UNION {
           {[agent |-> [agents[k] EXCEPT !.remaining_likes = r.remaining_likes],
             hooked |-> 0, consulted |-> j, candidates_details |-> c,
             raised_in |-> "is_interested"]
            : r \in {q \in {AssessLoop(SubSeq(c, 1, j - 1), answers, 1,
                                       agents[k].like_allowance, {}, {}, 0)
                            : answers \in [Range(SubSeq(c, 1, j - 1)) -> BOOLEAN]}
                     : q.consulted = j - 1 /\ q.remaining_likes >= 1}}
           : j \in 1 .. Len(c)} : c \in RecommendedCandidates(k)}

\* The turn of agent k in the loop of run_new_round when one of its strategy's
\* calls raises: new_round_callback, before the allowance is reset, or
\* is_interested on the j-th candidate, after new_round_callback was called and
\* the answers about the candidates before the j-th took from remaining_likes;
\* liked and passed are updated only after the loop of assess_candidates and so
\* stay as they were. hooked counts the calls of new_round_callback, consulted
\* those of is_interested, the one that raised included.
RaisingTurns(k) ==
    {[agent |-> agents[k], hooked |-> 1, consulted |-> 0, candidates_details |-> <<>>,
      raised_in |-> "new_round_callback"]}
    \cup UNION {UNION {
           {[agent |-> [agents[k] EXCEPT !.remaining_likes = r.remaining_likes],
             hooked |-> 1, consulted |-> j, candidates_details |-> c,
             raised_in |-> "is_interested"]
            : r \in {q \in {AssessLoop(SubSeq(c, 1, j - 1), answers, 1,
                                       agents[k].like_allowance, {}, {}, 0)
                            : answers \in [Range(SubSeq(c, 1, j - 1)) -> BOOLEAN]}
                     : q.consulted = j - 1 /\ q.remaining_likes >= 1}}
           : j \in 1 .. Len(c)} : c \in RecommendedCandidates(k)}

\* run_new_round when a strategy call of agent k raises in the loop: the round
\* was incremented first, the agents before k had their whole turn, and the
\* exception leaves run_new_round before process_likes.
RunNewRoundRaises ==
    /\ round < MaxRound
    /\ \E k \in NotSkipped :
       \E turns \in Collect({a \in NotSkipped : a < k}) :
       \E raising \in RaisingTurns(k) :
          /\ round' = round + 1
          /\ agents' = [a \in agent_ids |->
                          IF a \in DOMAIN turns THEN turns[a].agent
                          ELSE IF a = k THEN raising.agent ELSE agents[a]]
          /\ round_likes' = [a \in DOMAIN turns |-> turns[a].liked]
          /\ round_passes' = [a \in DOMAIN turns |-> turns[a].passed]
          /\ candidates_details' =
                [a \in agent_ids |->
                   IF a \in DOMAIN turns THEN turns[a].candidates_details
                   ELSE IF a = k THEN raising.candidates_details ELSE <<>>]
          /\ consulted' =
                [a \in agent_ids |->
                   IF a \in DOMAIN turns THEN turns[a].consulted
                   ELSE IF a = k THEN raising.consulted ELSE 0]
          /\ new_round_calls' =
                [a \in agent_ids |->
                   IF a \in DOMAIN turns THEN new_round_calls[a] + 1
                   ELSE IF a = k THEN new_round_calls[a] + raising.hooked
                   ELSE new_round_calls[a]]
          /\ last_call' = [op |-> "run_new_round_raised", agent |-> k,
                           raised_in |-> raising.raised_in]
    /\ UNCHANGED <<config, matrix, waiting_matches, eliminated_agents, ratings,
                   rating_logs, get_matched_calls, eliminations, call>>

NextRaise == RunNewRound \/ RunNewRoundRaises \/ EliminateBottom \/ EliminateBottomEmpty

SpecRaise == Init /\ [][NextRaise]_vars

\* ------------------------------------- the rating-based matcher's operations
\* get_available_candidates, process_likes and process_passes of a
\* RankedAgentMatcher, each applied once to a matcher some rounds have left
\* with the rating means rts.
\* Every combination of the options of RankedAgentMatcher.__init__.
AllRankedOptions ==
    [strict_recommendations : BOOLEAN, likes_as_draws : BOOLEAN, rank_passes : BOOLEAN,
     rank_pass_from_lower : BOOLEAN, rank_pass_from_higher : BOOLEAN]

\* The rating means the rounds before have left.
RatingMeans == {PriorMu - 1, PriorMu, PriorMu + 2}

\* The calls: fn on agent with the targets (the likes or passes of the agent in
\* this round, or the candidates it passed before, none for an agent that has
\* not assessed anybody yet); prior tells whether the targets liked the agent
\* in an earlier round.
RankedCalls ==
    [fn : {"process_likes", "process_passes"},
     agent : agent_ids,
     targets : {T \in SUBSET agent_ids : Cardinality(T) \in {1, 2}},
     prior : BOOLEAN]
    \cup [fn : {"get_available_candidates"},
          agent : agent_ids,
          targets : {T \in SUBSET agent_ids : Cardinality(T) \in {0, 1, 2}},
          prior : {TRUE}]

InitRanked ==
    \E cfg \in {MatcherConfig("ranked", l, o) : l \in 1 .. MaxRecommendationLimit,
                                                 o \in AllRankedOptions},
       rts \in [agent_ids -> RatingMeans],
       el \in {{}, {NumAgents - 1}},
       c \in RankedCalls :
       /\ c.agent \notin c.targets \cup el
       /\ c.targets \cap el = {}
       /\ config = cfg
       /\ agents =
             [a \in agent_ids |->
                LET new == NewAgent(a, MaxLikeAllowance, {}, {})
                IN IF a = c.agent
                   THEN IF c.fn = "process_likes" THEN [new EXCEPT !.liked = c.targets]
                        ELSE [new EXCEPT !.passed = c.targets]
                   ELSE IF a \in c.targets /\ c.prior /\ c.fn # "get_available_candidates"
                        THEN [new EXCEPT !.liked = {c.agent}]
                   ELSE new]
       /\ round = 1
       /\ matrix =
             [p \in agent_ids \X agent_ids |->
                IF p[2] = c.agent /\ p[1] \in c.targets /\ c.prior
                   /\ c.fn # "get_available_candidates" THEN 1
                ELSE IF p[1] = c.agent /\ p[2] \in c.targets
                        /\ c.fn = "get_available_candidates" THEN -1
                ELSE 0]
       /\ waiting_matches = {}
       /\ eliminated_agents = el
       /\ ratings = rts
       /\ rating_logs = [a \in agent_ids |-> <<>>]
       /\ round_likes = <<>>
       /\ round_passes = <<>>
       /\ candidates_details = [a \in agent_ids |-> <<>>]
       /\ consulted = [a \in agent_ids |-> 0]
       /\ new_round_calls = [a \in agent_ids |-> 0]
       /\ get_matched_calls = [p \in agent_ids \X agent_ids |-> 0]
       /\ last_call = [op |-> "init"]
       /\ eliminations = 0
       /\ call = [fn |-> c.fn, agent |-> c.agent, targets |-> c.targets,
                  done |-> FALSE, value |-> <<>>]

\* self.get_available_candidates(agent).
CallGetAvailableCandidates ==
    /\ call.fn = "get_available_candidates"
    /\ ~call.done
    /\ \E value \in RankedGetAvailableCandidates(call.agent) :
          call' = [call EXCEPT !.done = TRUE, !.value = value]
    /\ UNCHANGED <<config, agents, round, matrix, waiting_matches, eliminated_agents,
                   ratings, rating_logs, round_likes, round_passes, candidates_details,
                   consulted, new_round_calls, get_matched_calls, last_call,
                   eliminations>>

\* self.process_likes(likes={agent: targets}).
CallProcessLikes ==
    /\ call.fn = "process_likes"
    /\ ~call.done
    /\ \E s \in ProcessLikes([matrix |-> matrix, ratings |-> ratings,
                              waiting_matches |-> waiting_matches],
                             (call.agent :> call.targets)) :
          /\ matrix' = s.matrix
          /\ ratings' = s.ratings
          /\ waiting_matches' = s.waiting_matches
    /\ call' = [call EXCEPT !.done = TRUE]
    /\ UNCHANGED <<config, agents, round, eliminated_agents, rating_logs, round_likes,
                   round_passes, candidates_details, consulted, new_round_calls,
                   get_matched_calls, last_call, eliminations>>

\* self.process_passes(passes={agent: targets}).
CallProcessPasses ==
    /\ call.fn = "process_passes"
    /\ ~call.done
    /\ \E s \in ProcessPasses([matrix |-> matrix, ratings |-> ratings,
                               waiting_matches |-> waiting_matches],
                              (call.agent :> call.targets)) :
          /\ matrix' = s.matrix
          /\ ratings' = s.ratings
          /\ waiting_matches' = s.waiting_matches
    /\ call' = [call EXCEPT !.done = TRUE]
    /\ UNCHANGED <<config, agents, round, eliminated_agents, rating_logs, round_likes,
                   round_passes, candidates_details, consulted, new_round_calls,
                   get_matched_calls, last_call, eliminations>>

NextRanked == CallGetAvailableCandidates \/ CallProcessLikes \/ CallProcessPasses

SpecRanked == InitRanked /\ [][NextRanked]_vars

\* --------------------------------------------------- calculate_happiness
\* The agents calculate_happiness is applied to: every gender, three
\* attractiveness levels, the two ends of the self-estimate, both impostor
\* values, one observable and one hidden attribute.
HappinessAgents ==
    { AgentInit(<<o>>, <<h>>, 1, g, att,
                IF low THEN EstimationMin(att) ELSE EstimationMax(att), FALSE, imp)
      : o \in {0, 1}, h \in {0, 1}, g \in {"Male", "Female"},
        att \in {1000, 3000, 5000}, low \in BOOLEAN, imp \in BOOLEAN }

InitHappiness ==
    /\ MatcherInit(MatcherConfig("random", 1, DefaultOptions),
                   [like_allowance |-> 1, premium |-> {}, impostors |-> {}])
    /\ \E self \in HappinessAgents, matched_agent \in HappinessAgents :
          call = [fn |-> "calculate_happiness", self |-> self,
                  matched_agent |-> matched_agent, done |-> FALSE, value |-> 0]

\* self.calculate_happiness(matched_agent).
CallCalculateHappiness ==
    /\ call.fn = "calculate_happiness"
    /\ ~call.done
    /\ call' = [call EXCEPT !.done = TRUE,
                            !.value = CalculateHappiness(call.self, call.matched_agent)]
    /\ UNCHANGED <<config, agents, round, matrix, waiting_matches, eliminated_agents,
                   ratings, rating_logs, round_likes, round_passes, candidates_details,
                   consulted, new_round_calls, get_matched_calls, last_call,
                   eliminations>>

NextHappiness == CallCalculateHappiness

SpecHappiness == InitHappiness /\ [][NextHappiness]_vars

\* ----------------------------------------------------------- recommendation
\* A matcher in which nobody has assessed anybody, with any rating means, and
\* the agent whose turn it is in run_new_round.
InitRecommend ==
    \E cfg \in Configs, rts \in [agent_ids -> RatingMeans],
       like_allowance \in 1 .. MaxLikeAllowance, agent \in agent_ids :
       /\ config = cfg
       /\ agents = [a \in agent_ids |-> NewAgent(a, like_allowance, {}, {})]
       /\ round = 1
       /\ matrix = [p \in agent_ids \X agent_ids |-> 0]
       /\ waiting_matches = {}
       /\ eliminated_agents = {}
       /\ ratings = IF cfg.variant = "ranked" THEN rts ELSE [a \in agent_ids |-> PriorMu]
       /\ rating_logs = [a \in agent_ids |-> <<>>]
       /\ round_likes = <<>>
       /\ round_passes = <<>>
       /\ candidates_details = [a \in agent_ids |-> <<>>]
       /\ consulted = [a \in agent_ids |-> 0]
       /\ new_round_calls = [a \in agent_ids |-> 0]
       /\ get_matched_calls = [p \in agent_ids \X agent_ids |-> 0]
       /\ last_call = [op |-> "init"]
       /\ eliminations = 0
       /\ call = [fn |-> "recommend", agent |-> agent, done |-> FALSE,
                  candidates_details |-> <<>>, liked |-> {}, passed |-> {}]

\* The agent's turn in the loop of run_new_round: the candidates are drawn, put
\* in a list by get_agents_by_ids and assessed.
CallRecommend ==
    /\ call.fn = "recommend"
    /\ ~call.done
    /\ \E turn \in AgentTurns(call.agent) :
          /\ agents' = [agents EXCEPT ![call.agent] = turn.agent]
          /\ consulted' = [consulted EXCEPT ![call.agent] = turn.consulted]
          /\ call' = [call EXCEPT !.done = TRUE,
                                  !.candidates_details = turn.candidates_details,
                                  !.liked = turn.liked, !.passed = turn.passed]
    /\ UNCHANGED <<config, round, matrix, waiting_matches, eliminated_agents, ratings,
                   rating_logs, round_likes, round_passes, candidates_details,
                   new_round_calls, get_matched_calls, last_call, eliminations>>

NextRecommend == CallRecommend

SpecRecommend == InitRecommend /\ [][NextRecommend]_vars

\* --------------------------------------------------------------- quiescence
\* run_new_round, for one round more than it takes NumAgents agents to assess
\* one another.
RunNewRoundToTheEnd == RunNewRoundBefore(NumAgents)

NextToTheEnd == RunNewRoundToTheEnd \/ EliminateBottom \/ EliminateBottomEmpty

SpecToTheEnd == Init /\ [][NextToTheEnd]_vars

\* ------------------------------------------------------------ construction
\* The id lists a driver can hand to a matcher: one to NumAgents agents with
\* distinct ids, in any order, zero-based and sequential or not. An agent is
\* written as its id.
IdLists ==
    { ids \in UNION {[1 .. n -> 0 .. NumAgents] : n \in 1 .. NumAgents} :
        \A i, j \in 1 .. Len(ids) : ids[i] = ids[j] => i = j }

\* The part of the matcher __init__ builds from the agents' ids: the list, the
\* set of ids and the side of the square matrix. No statement of __init__
\* raises, whatever the ids are.
Construct(ids) ==
    [agents |-> ids, agent_ids |-> Range(ids), shape |-> Cardinality(Range(ids)),
     raised |-> FALSE]

\* get_agent_by_id: self.agents[id], the agent at position id of the list
\* (IndexError beyond its end).
GetAgentById(self, id) ==
    IF id < Len(self.agents)
    THEN [raised |-> FALSE, value |-> self.agents[id + 1]]
    ELSE [raised |-> TRUE, value |-> -1]

\* self.matrix[id, id]: IndexError when id is not below the matrix's side.
MatrixIndexRaises(self, id) == id >= self.shape

NoMatcher == [agents |-> <<>>, agent_ids |-> {}, shape |-> 0, raised |-> FALSE]

NoLookup == [id |-> -1, raised |-> FALSE, value |-> -1, matrix_raised |-> FALSE]

InitConstruct ==
    /\ \E cfg \in {MatcherConfig(v, 1, DefaultOptions) : v \in {"random", "ranked"}} :
          MatcherInit(cfg, [like_allowance |-> 1, premium |-> {}, impostors |-> {}])
    /\ \E ids \in IdLists :
          call = [fn |-> "__init__", ids |-> ids, done |-> FALSE, self |-> NoMatcher,
                  lookup |-> NoLookup]

\* RandomAgentMatcher(agents, ...) or RankedAgentMatcher(agents, ...).
CallConstruct ==
    /\ call.fn = "__init__"
    /\ ~call.done
    /\ call' = [call EXCEPT !.done = TRUE, !.self = Construct(call.ids)]
    /\ UNCHANGED <<config, agents, round, matrix, waiting_matches, eliminated_agents,
                   ratings, rating_logs, round_likes, round_passes, candidates_details,
                   consulted, new_round_calls, get_matched_calls, last_call,
                   eliminations>>

\* The matcher, once built, looks an agent of its agent_ids up and indexes the
\* matrix by its id, as process_likes, process_passes and process_matches do.
CallGetAgentById ==
    /\ call.fn = "__init__"
    /\ call.done
    /\ ~call.self.raised
    /\ \E id \in call.self.agent_ids :
          call' = [call EXCEPT !.fn = "get_agent_by_id",
                     !.lookup = [id |-> id,
                                 raised |-> GetAgentById(call.self, id).raised,
                                 value |-> GetAgentById(call.self, id).value,
                                 matrix_raised |-> MatrixIndexRaises(call.self, id)]]
    /\ UNCHANGED <<config, agents, round, matrix, waiting_matches, eliminated_agents,
                   ratings, rating_logs, round_likes, round_passes, candidates_details,
                   consulted, new_round_calls, get_matched_calls, last_call,
                   eliminations>>

NextConstruct == CallConstruct \/ CallGetAgentById

SpecConstruct == InitConstruct /\ [][NextConstruct]_vars

\* ------------------------------------------------------------------ get_logs
\* An optional argument: None, or a value.
None == [given |-> FALSE]

Some(v) == [given |-> TRUE, value |-> v]

\* Mutant: the comprehensions look every requested variable and round up,
\* without the conditions (a missing key raises KeyError).
GetLogsUnfiltered(self, log_id, variables) ==
    LET history == self.history
        names == IF variables.given THEN Range(variables.value) ELSE DOMAIN history
        missing == {variable \in names :
                       \/ variable \notin DOMAIN history
                       \/ log_id.given /\ log_id.value \notin DOMAIN history[variable]}
    IN IF ~log_id.given /\ ~variables.given THEN [raised |-> FALSE, value |-> history]
       ELSE IF missing # {} THEN [raised |-> TRUE, value |-> <<>>]
       ELSE [raised |-> FALSE,
             value |-> [variable \in names |->
                           IF log_id.given THEN history[variable][log_id.value]
                           ELSE history[variable]]]

\* get_logs: the four branches; the dictionary is written as a function and
\* the call as the pair of whether it raised and what it returned.
GetLogs(self, log_id, variables) ==
    LET history == self.history
    IN IF ~log_id.given /\ ~variables.given
       THEN [raised |-> FALSE, value |-> history]
       ELSE IF log_id.given /\ ~variables.given
       THEN [raised |-> FALSE,
             value |-> [variable \in {v \in DOMAIN history :
                                         log_id.value \in DOMAIN history[v]} |->
                           history[variable][log_id.value]]]
       ELSE IF ~log_id.given /\ variables.given
       THEN [raised |-> FALSE,
             value |-> [variable \in {v \in Range(variables.value) :
                                         v \in DOMAIN history} |->
                           history[variable]]]
       ELSE [raised |-> FALSE,
             value |-> [variable \in {v \in Range(variables.value) :
                                         /\ v \in DOMAIN history
                                         /\ log_id.value \in DOMAIN history[v]} |->
                           history[variable][log_id.value]]]

\* The lists of variable names a driver logs or asks for; the agent has no
\* attribute named "mood".
VariableLists ==
    { <<>>, <<"match_count">>, <<"happiness">>, <<"match_count", "happiness">>,
      <<"happiness", "mood">> }

\* Agents with a history: a new agent, or one that has matched once, after up to
\* two log_state calls, the second after one more match.
LoggedAgents ==
    LET new == NewAgent(0, 1, {}, {})
        starts == {new, [new EXCEPT !.match_count = 1, !.happiness = 500]}
        once == {LogState(agent, r, l) : agent \in starts, r \in 1 .. MaxRound,
                                          l \in VariableLists}
        later == {[agent EXCEPT !.match_count = @ + 1, !.happiness = @ + 250] :
                     agent \in once}
        twice == {LogState(agent, r, l) : agent \in later, r \in 1 .. MaxRound,
                                           l \in VariableLists}
    IN starts \cup once \cup twice

InitLogs ==
    /\ MatcherInit(MatcherConfig("random", 1, DefaultOptions),
                   [like_allowance |-> 1, premium |-> {}, impostors |-> {}])
    /\ \E self \in LoggedAgents,
          log_id \in {None} \cup {Some(r) : r \in 0 .. MaxRound + 1},
          variables \in {None} \cup {Some(l) : l \in VariableLists} :
          call = [fn |-> "get_logs", self |-> self, log_id |-> log_id,
                  variables |-> variables, done |-> FALSE,
                  result |-> [raised |-> FALSE, value |-> <<>>]]

\* self.get_logs(log_id, variables).
CallGetLogs ==
    /\ call.fn = "get_logs"
    /\ ~call.done
    /\ call' = [call EXCEPT !.done = TRUE,
                            !.result = GetLogs(call.self, call.log_id, call.variables)]
    /\ UNCHANGED <<config, agents, round, matrix, waiting_matches, eliminated_agents,
                   ratings, rating_logs, round_likes, round_passes, candidates_details,
                   consulted, new_round_calls, get_matched_calls, last_call,
                   eliminations>>

NextLogs == CallGetLogs

SpecLogs == InitLogs /\ [][NextLogs]_vars

\* -------------------------------------------------------------- get_matched
\* How many matches in a row an agent is given.
MaxMatches == 2

\* The agents that are matched: both genders, both ends of the self-estimate,
\* impostors and genuine agents.
MatchedSelves ==
    { AgentInit(<<0>>, <<0>>, 1, g, 3000,
                IF low THEN EstimationMin(3000) ELSE EstimationMax(3000), FALSE, imp)
      : g \in {"Male", "Female"}, low \in BOOLEAN, imp \in BOOLEAN }

\* Their partners: like or unlike them in the observable attribute, less or
\* more attractive, impostors and genuine agents.
MatchedPartners ==
    { AgentInit(<<o>>, <<0>>, 1, "Male", att, att, FALSE, imp)
      : o \in {0, 1}, att \in {1000, 5000}, imp \in BOOLEAN }

InitMatches ==
    /\ MatcherInit(MatcherConfig("random", 1, DefaultOptions),
                   [like_allowance |-> 1, premium |-> {}, impostors |-> {}])
    /\ \E self \in MatchedSelves, partners \in [1 .. MaxMatches -> MatchedPartners] :
          call = [fn |-> "get_matched", self |-> self, partners |-> partners,
                  underlying |-> <<>>, contributions |-> <<>>]

\* self.get_matched(partner) for the next partner; the partner's id is its
\* position. The call keeps what calculate_happiness returned and the product
\* that was added.
CallGetMatched ==
    /\ call.fn = "get_matched"
    /\ Len(call.contributions) < Len(call.partners)
    /\ LET matched_id == Len(call.contributions) + 1
           matched_agent == call.partners[matched_id]
           after == GetMatched(call.self, matched_id, matched_agent)
       IN call' = [call EXCEPT
                     !.self = after,
                     !.underlying =
                         Append(@, CalculateHappiness(call.self, matched_agent)),
                     !.contributions =
                         Append(@, DecayedHappiness(call.self, matched_agent,
                                                    after.match_count))]
    /\ UNCHANGED <<config, agents, round, matrix, waiting_matches, eliminated_agents,
                   ratings, rating_logs, round_likes, round_passes, candidates_details,
                   consulted, new_round_calls, get_matched_calls, last_call,
                   eliminations>>

NextMatches == CallGetMatched

SpecMatches == InitMatches /\ [][NextMatches]_vars

\* -------------------------------------------------------- get_compatibility
\* The most attributes an agent type has.
MaxAttributes == 2

\* The calculators a caller can build for n attributes: any weights, and any
\* rewards for a match (TRUE) and a mismatch (FALSE), equal or not.
Calculators(n) ==
    { [attribute_weights |-> w, attribute_match_rewards |-> r] :
        w \in [1 .. n -> {250, 500}],
        r \in [1 .. n -> [BOOLEAN -> {750, 1250}]] }

InitCompatibility ==
    /\ MatcherInit(MatcherConfig("random", 1, DefaultOptions),
                   [like_allowance |-> 1, premium |-> {}, impostors |-> {}])
    /\ \E n \in 1 .. MaxAttributes :
       \E calculator \in Calculators(n), type_1 \in [1 .. n -> {0, 1}],
          type_2 \in [1 .. n -> {0, 1}] :
          call = [fn |-> "get_compatibility", calculator |-> calculator,
                  type_1 |-> type_1, type_2 |-> type_2, done |-> FALSE,
                  value |-> 0, swapped |-> 0]

\* calculator.get_compatibility(type_1, type_2), and the same call with the
\* two types swapped.
CallGetCompatibility ==
    /\ call.fn = "get_compatibility"
    /\ ~call.done
    /\ LET calculator == call.calculator
       IN call' = [call EXCEPT
                     !.done = TRUE,
                     !.value = GetCompatibility(calculator.attribute_weights,
                                                calculator.attribute_match_rewards,
                                                call.type_1, call.type_2),
                     !.swapped = GetCompatibility(calculator.attribute_weights,
                                                  calculator.attribute_match_rewards,
                                                  call.type_2, call.type_1)]
    /\ UNCHANGED <<config, agents, round, matrix, waiting_matches, eliminated_agents,
                   ratings, rating_logs, round_likes, round_passes, candidates_details,
                   consulted, new_round_calls, get_matched_calls, last_call,
                   eliminations>>

NextCompatibility == CallGetCompatibility

SpecCompatibility == InitCompatibility /\ [][NextCompatibility]_vars

\* -------------------------------------------------------------- strategies
\* How many candidates a strategy is asked about.
MaxAsked == 3

\* HR and AmbitiousHR: the default of default_rejection_threshold.
default_rejection_threshold == 37

\* HR.__init__ / AmbitiousHR.__init__.
StrategyInit(name, estimated_daily_candidates) ==
    [name |-> name, is_premium |-> FALSE,
     estimated_daily_candidates |-> estimated_daily_candidates,
     observed_values |-> <<>>]

\* The first statement of both is_interested: the estimate is doubled the first
\* time the strategy sees that its agent is premium.
NotePremium(self, agent_is_premium) ==
    IF agent_is_premium /\ ~self.is_premium
    THEN [self EXCEPT !.is_premium = TRUE, !.estimated_daily_candidates = @ * 2]
    ELSE self

\* int(default_rejection_threshold * 0.01 * estimated_daily_candidates).
RejectionCount(self) ==
    (default_rejection_threshold * self.estimated_daily_candidates) \div 100

\* max(values), of a list that is not empty.
MaxObserved(values) ==
    CHOOSE v \in Range(values) : \A w \in Range(values) : w <= v

\* HR.is_interested: the strategy afterwards and the answer; a branch that ends
\* without a return statement answers None, max of an empty list raises
\* ValueError.
HRIsInterested(strategy, agent_is_premium, attractiveness) ==
    LET self == NotePremium(strategy, agent_is_premium)
    IN IF Len(self.observed_values) >= RejectionCount(self)
       THEN IF self.observed_values = <<>>
            THEN [self |-> self, answer |-> "ValueError"]
            ELSE IF attractiveness > MaxObserved(self.observed_values)
            THEN [self |-> self, answer |-> "True"]
            ELSE [self |-> self, answer |-> "None"]
       ELSE [self |-> [self EXCEPT !.observed_values = Append(@, attractiveness)],
             answer |-> "False"]

\* AmbitiousHR.is_interested: the candidate is appended to the observations
\* before the comparison with their maximum.
AmbitiousHRIsInterested(strategy, agent_is_premium, attractiveness) ==
    LET noted == NotePremium(strategy, agent_is_premium)
        self == [noted EXCEPT !.observed_values = Append(@, attractiveness)]
    IN IF Len(self.observed_values) > RejectionCount(self)
       THEN IF attractiveness > MaxObserved(self.observed_values)
            THEN [self |-> self, answer |-> "True"]
            ELSE [self |-> self, answer |-> "None"]
       ELSE [self |-> self, answer |-> "False"]

IsInterested(strategy, agent_is_premium, attractiveness) ==
    IF strategy.name = "HR"
    THEN HRIsInterested(strategy, agent_is_premium, attractiveness)
    ELSE AmbitiousHRIsInterested(strategy, agent_is_premium, attractiveness)

\* new_round_callback: HR empties its observations, AmbitiousHR inherits the
\* hook that does nothing.
NewRoundCallback(strategy) ==
    IF strategy.name = "HR" THEN [strategy EXCEPT !.observed_values = <<>>]
    ELSE strategy

\* The strategy of one agent, built for a day of two or three candidates.
InitStrategy ==
    /\ MatcherInit(MatcherConfig("random", 1, DefaultOptions),
                   [like_allowance |-> 1, premium |-> {}, impostors |-> {}])
    /\ \E name \in {"HR", "Ambitious HR"}, estimated_daily_candidates \in {2, 3},
          agent_is_premium \in BOOLEAN :
          call = [fn |-> "strategy", agent_is_premium |-> agent_is_premium,
                  estimated |-> estimated_daily_candidates,
                  self |-> StrategyInit(name, estimated_daily_candidates),
                  asked |-> 0, rounds |-> 0,
                  last |-> [op |-> "__init__", attractiveness |-> 0,
                            before |-> StrategyInit(name, estimated_daily_candidates),
                            answer |-> "None"]]

\* The agent asks its strategy about one more candidate.
CallIsInterested ==
    /\ call.fn = "strategy"
    /\ call.asked < MaxAsked
    /\ \E attractiveness \in {1000, 2000, 3000} :
          LET r == IsInterested(call.self, call.agent_is_premium, attractiveness)
          IN call' = [call EXCEPT
                        !.self = r.self,
                        !.asked = @ + 1,
                        !.last = [op |-> "is_interested",
                                  attractiveness |-> attractiveness,
                                  before |-> call.self, answer |-> r.answer]]
    /\ UNCHANGED <<config, agents, round, matrix, waiting_matches, eliminated_agents,
                   ratings, rating_logs, round_likes, round_passes, candidates_details,
                   consulted, new_round_calls, get_matched_calls, last_call,
                   eliminations>>

\* The matcher starts a round.
CallNewRoundCallback ==
    /\ call.fn = "strategy"
    /\ call.rounds < MaxRound
    /\ call' = [call EXCEPT
                  !.self = NewRoundCallback(call.self),
                  !.rounds = @ + 1,
                  !.last = [op |-> "new_round_callback", attractiveness |-> 0,
                            before |-> call.self, answer |-> "None"]]
    /\ UNCHANGED <<config, agents, round, matrix, waiting_matches, eliminated_agents,
                   ratings, rating_logs, round_likes, round_passes, candidates_details,
                   consulted, new_round_calls, get_matched_calls, last_call,
                   eliminations>>

NextStrategy == CallIsInterested \/ CallNewRoundCallback

SpecStrategy == InitStrategy /\ [][NextStrategy]_vars

\* ----------------------------------------------------------- SelfReflective
\* SelfReflective.__init__: the matched values start with five made-up ones and
\* the strategy's own estimate is None.
ReflectiveInit ==
    [matched_values |-> <<1000, 2000, 3000, 4000, 5000>>,
     estimated_attractiveness |-> [kind |-> "None", value |-> 0]]

\* What the bounded minimisation over the kernel density estimate can return:
\* a level between 1.0 and 5.0.
Estimates == {1000, 2000, 3000, 4000, 5000}

\* estimate_self_attractiveness, given the level the minimisation returned: the
\* strategy keeps it, and the agent gets it as the attribute named
\* estimated_attractivenes.
EstimateSelfAttractiveness(self, agent, x) ==
    [self |-> [self EXCEPT !.estimated_attractiveness = [kind |-> "float", value |-> x]],
     agent |-> ("estimated_attractivenes" :> x) @@ agent]

\* SelfReflective.match_callback.
ReflectiveMatchCallback(self, agent, matched_agent, x) ==
    EstimateSelfAttractiveness(
        [self EXCEPT !.matched_values = Append(@, matched_agent.attractiveness)],
        agent, x)

\* SelfReflective.is_interested: a first call estimates, and stores what
\* estimate_self_attractiveness returned (True) as the strategy's estimate; the
\* answer compares the agent's estimated_attractiveness with the candidate.
ReflectiveIsInterested(self, agent, attractiveness, x) ==
    LET first == self.estimated_attractiveness.kind = "None"
        estimated == EstimateSelfAttractiveness(self, agent, x)
        attractiveness_difference == agent.estimated_attractiveness - attractiveness
    IN [self |-> IF first
                 THEN [estimated.self EXCEPT
                         !.estimated_attractiveness = [kind |-> "True", value |-> 1]]
                 ELSE self,
        agent |-> IF first THEN estimated.agent ELSE agent,
        answer |-> -1500 <= attractiveness_difference
                   /\ attractiveness_difference <= 2000]

\* An agent with the SelfReflective strategy, at either end of the
\* self-estimate of its creation.
InitReflective ==
    /\ MatcherInit(MatcherConfig("random", 1, DefaultOptions),
                   [like_allowance |-> 1, premium |-> {}, impostors |-> {}])
    /\ \E att \in {1000, 3000, 5000}, low \in BOOLEAN :
          LET agent == AgentInit(<<0>>, <<0>>, 1, "Female", att,
                                 IF low THEN EstimationMin(att) ELSE EstimationMax(att),
                                 FALSE, FALSE)
          IN call = [fn |-> "self_reflective", created |-> agent, agent |-> agent,
                     self |-> ReflectiveInit, matches |-> 0, asked |-> 0,
                     last |-> [op |-> "__init__", estimate |-> 0, answer |-> FALSE]]

\* agent.get_matched(matched_agent) ends in the strategy's match_callback.
CallReflectiveMatchCallback ==
    /\ call.fn = "self_reflective"
    /\ call.matches < MaxMatches
    /\ \E matched_agent \in MatchedPartners, x \in Estimates :
          LET r == ReflectiveMatchCallback(call.self, call.agent, matched_agent, x)
          IN call' = [call EXCEPT
                        !.self = r.self,
                        !.agent = r.agent,
                        !.matches = @ + 1,
                        !.last = [op |-> "match_callback", estimate |-> x,
                                  answer |-> FALSE]]
    /\ UNCHANGED <<config, agents, round, matrix, waiting_matches, eliminated_agents,
                   ratings, rating_logs, round_likes, round_passes, candidates_details,
                   consulted, new_round_calls, get_matched_calls, last_call,
                   eliminations>>

\* The agent asks its SelfReflective strategy about a candidate.
CallReflectiveIsInterested ==
    /\ call.fn = "self_reflective"
    /\ call.asked < MaxAsked
    /\ \E attractiveness \in {1000, 3000, 5000}, x \in Estimates :
          LET r == ReflectiveIsInterested(call.self, call.agent, attractiveness, x)
          IN call' = [call EXCEPT
                        !.self = r.self,
                        !.agent = r.agent,
                        !.asked = @ + 1,
                        !.last = [op |-> "is_interested", estimate |-> x,
                                  answer |-> r.answer]]
    /\ UNCHANGED <<config, agents, round, matrix, waiting_matches, eliminated_agents,
                   ratings, rating_logs, round_likes, round_passes, candidates_details,
                   consulted, new_round_calls, get_matched_calls, last_call,
                   eliminations>>

NextReflective == CallReflectiveMatchCallback \/ CallReflectiveIsInterested

SpecReflective == InitReflective /\ [][NextReflective]_vars

\* --------------------------------------------------------- eliminate_bottom
\* The happiness the agents can have reached when the eliminations begin.
HappinessLevels == {0, 500, 1000}

\* A matcher after some rounds: every agent has some happiness and, in the
\* rating-based matcher, some rating mean; nobody is eliminated yet.
InitEliminate ==
    \E variant \in {"random", "ranked"}, happiness \in [agent_ids -> HappinessLevels] :
    \E rts \in (IF variant = "ranked" THEN [agent_ids -> RatingMeans]
                ELSE {[a \in agent_ids |-> PriorMu]}) :
       /\ config = MatcherConfig(variant, 1, DefaultOptions)
       /\ agents = [a \in agent_ids |->
                      [NewAgent(a, 1, {}, {}) EXCEPT !.happiness = happiness[a]]]
       /\ round = 1
       /\ matrix = [p \in agent_ids \X agent_ids |-> 0]
       /\ waiting_matches = {}
       /\ eliminated_agents = {}
       /\ ratings = rts
       /\ rating_logs = [a \in agent_ids |-> <<>>]
       /\ round_likes = <<>>
       /\ round_passes = <<>>
       /\ candidates_details = [a \in agent_ids |-> <<>>]
       /\ consulted = [a \in agent_ids |-> 0]
       /\ new_round_calls = [a \in agent_ids |-> 0]
       /\ get_matched_calls = [p \in agent_ids \X agent_ids |-> 0]
       /\ last_call = [op |-> "init"]
       /\ eliminations = 0
       /\ call = NoCall

\* eliminate_bottom(bottom_threshold, using_ratings), called again and again
\* while somebody is left.
CallEliminateBottom ==
    /\ eliminations <= NumAgents
    /\ agent_ids \ eliminated_agents # {}
    /\ \E bottom_threshold \in Thresholds,
          using_ratings \in (IF config.variant = "ranked" THEN BOOLEAN ELSE {FALSE}) :
          /\ eliminated_agents' =
                EliminatedBy(agent_ids, eliminated_agents, Metric(using_ratings),
                             bottom_threshold)
          /\ last_call' = [op |-> "eliminate_bottom", bottom_threshold |-> bottom_threshold,
                           using_ratings |-> using_ratings]
    /\ eliminations' = eliminations + 1
    /\ UNCHANGED <<config, agents, round, matrix, waiting_matches, ratings, rating_logs,
                   round_likes, round_passes, candidates_details, consulted,
                   new_round_calls, get_matched_calls, call>>

NextEliminate == CallEliminateBottom

SpecEliminate == InitEliminate /\ [][NextEliminate]_vars

\* ------------------------------------------------------------------ claims
\* A step that runs a round.
RoundStep == round' = round + 1

\* A step that eliminates with agents left to rank.
EliminationStep ==
    eliminations' = eliminations + 1 /\ last_call'.op = "eliminate_bottom"

\* C1: no double-exposure. In both matchers an agent's liked and passed sets
\* only grow, and every round hands to assess_candidates, for every agent, only
\* candidates that were in neither set before the round: once a candidate is
\* liked or passed it is never recommended to that agent again, whatever rounds
\* and eliminations come between.
C1_NoDoubleExposure ==
    [][ /\ \A a \in agent_ids :
             /\ agents[a].liked \subseteq agents'[a].liked
             /\ agents[a].passed \subseteq agents'[a].passed
        /\ RoundStep =>
             \A a \in agent_ids :
                Range(candidates_details'[a]) \cap GetAssessedCandidates(agents[a]) = {}
      ]_vars

\* A second round, after an elimination, in which an agent that assessed
\* someone in the first round is given a new candidate.
C1_Witness ==
    /\ round = 2
    /\ last_call.op = "run_new_round"
    /\ eliminations > 0
    /\ \E a \in agent_ids :
          /\ candidates_details[a] # <<>>
          /\ GetAssessedCandidates(agents[a]) \ (round_likes[a] \cup round_passes[a]) # {}

\* Whether a and b like each other.
Mutual(a, b) == b \in agents[a].liked /\ a \in agents[b].liked

AvailableResults(a) ==
    IF config.variant = "random" THEN {RandomGetAvailableCandidates(a)}
    ELSE {Range(l) : l \in RankedGetAvailableCandidates(a)}

\* C3: elimination permanence. No step takes an id out of the elimination set,
\* and in every state, in both matchers, no result of get_available_candidates
\* holds an eliminated id, for any agent; nor does a round present one.
C3_EliminationPermanent ==
    /\ [](\A a \in agent_ids : \A r \in AvailableResults(a) : r \cap eliminated_agents = {})
    /\ [][ /\ eliminated_agents \subseteq eliminated_agents'
           /\ RoundStep =>
                \A a \in agent_ids : Range(candidates_details'[a]) \cap eliminated_agents = {}
         ]_vars

\* A second round after an elimination: an agent that plays has never assessed
\* an eliminated agent, which is withheld from it all the same.
C3_Witness ==
    /\ round = 2
    /\ last_call.op = "run_new_round"
    /\ \E a \in agent_ids \ eliminated_agents, e \in eliminated_agents :
          /\ new_round_calls[a] = 2
          /\ new_round_calls[e] = 1
          /\ e \notin GetAssessedCandidates(agents[a])
          /\ e \notin Range(candidates_details[a])

\* C4: run_new_round skips an eliminated agent: its new_round_callback is not
\* called, its remaining_likes is not reset, no candidates are drawn or assessed
\* for it, and its liked, passed, matched, match_count and happiness stay.
C4_EliminatedSkipped ==
    [][ RoundStep =>
          \A a \in eliminated_agents :
             /\ new_round_calls'[a] = new_round_calls[a]
             /\ agents'[a].remaining_likes = agents[a].remaining_likes
             /\ candidates_details'[a] = <<>>
             /\ consulted'[a] = 0
             /\ a \notin DOMAIN round_likes'
             /\ a \notin DOMAIN round_passes'
             /\ agents'[a].liked = agents[a].liked
             /\ agents'[a].passed = agents[a].passed
             /\ agents'[a].matched = agents[a].matched
             /\ agents'[a].match_count = agents[a].match_count
             /\ agents'[a].happiness = agents[a].happiness
      ]_vars

\* A second round in which an agent that used up likes in the first round and
\* was then eliminated sits out, while another agent plays.
C4_Witness ==
    /\ round = 2
    /\ last_call.op = "run_new_round"
    /\ \E a \in eliminated_agents, b \in agent_ids \ eliminated_agents :
          /\ new_round_calls[a] = 1
          /\ agents[a].liked # {}
          /\ agents[a].remaining_likes < agents[a].like_allowance
          /\ new_round_calls[b] = 2
          /\ candidates_details[b] # <<>>

\* The smallest and the largest of metric over S.
MinOf(metric, S) == CHOOSE v \in {metric[a] : a \in S} : \A a \in S : v <= metric[a]

MaxOf(metric, S) == CHOOSE v \in {metric[a] : a \in S} : \A a \in S : v >= metric[a]

\* C5: eliminate_bottom(threshold) takes the inclusive percentile of the metric
\* (happiness, or the rating mean with using_ratings) over the agents not yet
\* eliminated: the value lies between their smallest and largest metric.
\* Afterwards the elimination set holds every agent at or below the value and
\* no agent that was in and is above it; agents with equal metric go together;
\* threshold 50 on happiness 0,0,1,1,2,2 eliminates the four agents at or below 1.
C5_EliminateBottom ==
    [][ EliminationStep =>
          LET metric == Metric(last_call'.using_ratings)
              active == agent_ids \ eliminated_agents
              value100 == Percentile100(SortedValues(metric, active),
                                        last_call'.bottom_threshold)
          IN /\ 100 * MinOf(metric, active) <= value100
             /\ value100 <= 100 * MaxOf(metric, active)
             /\ \A a \in agent_ids : 100 * metric[a] <= value100 => a \in eliminated_agents'
             /\ \A a \in active : 100 * metric[a] > value100 => a \notin eliminated_agents'
             /\ \A a, b \in active :
                   metric[a] = metric[b] => (a \in eliminated_agents' <=> b \in eliminated_agents')
             /\ EliminatedBy(0 .. 5, {}, [i \in 0 .. 5 |-> i \div 2], 50) = {0, 1, 2, 3}
      ]_vars

\* A first elimination at threshold 50 that takes out two agents with the same
\* happiness and leaves a happier one in.
C5_Witness ==
    /\ last_call.op = "eliminate_bottom"
    /\ last_call.bottom_threshold = 50
    /\ ~last_call.using_ratings
    /\ eliminations = 1
    /\ \E a, b \in eliminated_agents, c \in agent_ids \ eliminated_agents :
          /\ a # b
          /\ agents[a].happiness = agents[b].happiness
          /\ agents[c].happiness > agents[a].happiness

\* C6: in every state every agent has 0 <= remaining_likes <= like_allowance.
C6_RemainingLikesInRange ==
    \A a \in agent_ids :
       /\ 0 <= agents[a].remaining_likes
       /\ agents[a].remaining_likes <= agents[a].like_allowance

\* A premium agent that has used up its doubled allowance in a round.
C6_Witness ==
    \E a \in agent_ids :
       /\ agents[a].is_premium
       /\ a \in DOMAIN round_likes
       /\ agents[a].remaining_likes = 0
       /\ Cardinality(round_likes[a]) = agents[a].like_allowance

\* C7: in a round an agent that is not skipped adds at most like_allowance ids
\* to its liked set, the ids assess_candidates returns as liked, and each of
\* them takes exactly one from the remaining_likes the round reset.
C7_LikesWithinAllowance ==
    [][ RoundStep =>
          \A a \in agent_ids \ eliminated_agents :
             LET added == agents'[a].liked \ agents[a].liked
             IN /\ Cardinality(added) <= agents[a].like_allowance
                /\ added = round_likes'[a]
                /\ agents'[a].remaining_likes
                     = agents[a].like_allowance - Cardinality(added)
      ]_vars

\* An agent with an allowance of one is given two candidates and likes the first.
C7_Witness ==
    /\ last_call.op = "run_new_round"
    /\ \E a \in DOMAIN round_likes :
          /\ agents[a].like_allowance = 1
          /\ Len(candidates_details[a]) = 2
          /\ round_likes[a] = {candidates_details[a][1]}

\* The positions of the latest candidates_details of a at which the likes given
\* so far use up the allowance.
UsedUpAt(a) ==
    {j \in 1 .. Len(candidates_details[a]) :
       /\ candidates_details[a][j] \in round_likes[a]
       /\ Cardinality({i \in 1 .. j : candidates_details[a][i] \in round_likes[a]})
            = agents[a].like_allowance}

\* C8: assess_candidates stops at the like that uses up the allowance: the
\* strategy was consulted for the candidates up to it and no further, and every
\* candidate after it is in neither liked nor passed, has no matrix cell, and
\* is still available to the agent unless it has been eliminated since.
C8_StopsWhenUsedUp ==
    round > 0 =>
      \A a \in DOMAIN round_likes : \A j \in UsedUpAt(a) :
         /\ consulted[a] = j
         /\ agents[a].remaining_likes = 0
         /\ \A i \in 1 .. Len(candidates_details[a]) :
               LET c == candidates_details[a][i]
               IN IF i <= j
                  THEN c \in round_likes[a] \cup round_passes[a]
                  ELSE /\ c \notin GetAssessedCandidates(agents[a])
                       /\ matrix[<<a, c>>] = 0
                       /\ c \in AllAvailable(a) \/ c \in eliminated_agents

\* An agent uses up its allowance on the first of two candidates; the second
\* stays unassessed and available.
C8_Witness ==
    /\ last_call.op = "run_new_round"
    /\ \E a \in DOMAIN round_likes :
          /\ Len(candidates_details[a]) = 2
          /\ UsedUpAt(a) = {1}
          /\ candidates_details[a][2] \in AllAvailable(a)

\* C9: in every state liked and passed are disjoint and hold no id of the agent
\* itself; and what assess_candidates returns in a round is disjoint from what
\* the agent had liked or passed before: nobody is assessed twice.
C9_AssessedOnce ==
    /\ [](\A a \in agent_ids :
             /\ agents[a].liked \cap agents[a].passed = {}
             /\ a \notin GetAssessedCandidates(agents[a]))
    /\ [][ RoundStep =>
             \A a \in DOMAIN round_likes' :
                /\ round_likes'[a] \cap round_passes'[a] = {}
                /\ (round_likes'[a] \cup round_passes'[a])
                     \cap GetAssessedCandidates(agents[a]) = {}
                /\ agents'[a].liked = agents[a].liked \cup round_likes'[a]
                /\ agents'[a].passed = agents[a].passed \cup round_passes'[a]
         ]_vars

\* An agent that passed one candidate in the first round and liked the other in
\* the second.
C9_Witness ==
    /\ round = 2
    /\ last_call.op = "run_new_round"
    /\ \E a \in DOMAIN round_likes :
          /\ round_likes[a] # {}
          /\ agents[a].passed # {}
          /\ round_passes[a] = {}
          /\ Cardinality(GetAssessedCandidates(agents[a])) = 2

\* The happiness of the pair when neither is an impostor.
GenuineHappiness(self, matched_agent) ==
    CalculateHappiness([self EXCEPT !.is_impostor = FALSE],
                       [matched_agent EXCEPT !.is_impostor = FALSE])

\* C10 as stated: calculate_happiness is 0 whenever exactly one of the two
\* agents is an impostor, whichever of them evaluates, and nonzero otherwise.
C10_ZeroBothWays ==
    call.fn = "calculate_happiness" /\ call.done =>
       IF call.self.is_impostor # call.matched_agent.is_impostor
       THEN call.value = 0
       ELSE call.value # 0

\* C10, amended: calculate_happiness is 0 exactly when a non-impostor evaluates
\* an impostor; an impostor evaluating anyone, and a non-impostor evaluating a
\* non-impostor, get the normal nonzero happiness of the pair.
C10_ZeroForGenuineOnly ==
    call.fn = "calculate_happiness" /\ call.done =>
       IF ~call.self.is_impostor /\ call.matched_agent.is_impostor
       THEN call.value = 0
       ELSE /\ call.value > 0
            /\ call.value = GenuineHappiness(call.self, call.matched_agent)

\* An impostor has evaluated a non-impostor, a woman less attractive than her
\* match, and got a nonzero happiness.
C10_Witness ==
    /\ call.fn = "calculate_happiness"
    /\ call.done
    /\ call.self.is_impostor
    /\ ~call.matched_agent.is_impostor
    /\ call.self.gender = "Female"
    /\ call.matched_agent.attractiveness > call.self.estimated_attractiveness
    /\ call.value > 0

\* Whether a's and b's cells of a matrix are both liked.
MutualCells(mx, a, b) == mx[<<a, b>>] = 1 /\ mx[<<b, a>>] = 1

\* C11: the phases of run_new_round are ordered. Every agent that is not
\* eliminated is assessed first, on the ratings and assessed sets of the start
\* of the round; then the likes and then the passes of all of them are written
\* to the matrix (and rated, likes before passes); then every pending match is
\* resolved, the matches this round's likes complete included; the snapshot is
\* taken last, so the match_count and happiness logged under the new round id
\* are the ones after this round's matches.
C11_PhasesOrdered ==
    [][ RoundStep =>
          /\ DOMAIN round_likes' = agent_ids \ eliminated_agents
          /\ DOMAIN round_passes' = agent_ids \ eliminated_agents
          /\ \A a \in agent_ids \ eliminated_agents :
                candidates_details'[a] \in RecommendedCandidates(a)
          /\ \A a, b \in agent_ids :
                matrix'[<<a, b>>] =
                   IF a \in DOMAIN round_likes' /\ b \in round_likes'[a] THEN 1
                   ELSE IF a \in DOMAIN round_passes' /\ b \in round_passes'[a] THEN -1
                   ELSE matrix[<<a, b>>]
          /\ config.variant = "ranked" =>
                ratings' \in
                   {s2.ratings :
                      s2 \in UNION {ProcessPasses(s1, round_passes') :
                                    s1 \in ProcessLikes([matrix |-> matrix,
                                                         ratings |-> ratings,
                                                         waiting_matches |-> {}],
                                                        round_likes')}}
          /\ waiting_matches' = {}
          /\ \A a \in agent_ids :
                /\ agents'[a].match_count =
                      agents[a].match_count
                      + Cardinality({b \in agent_ids :
                                       MutualCells(matrix', a, b) /\ ~MutualCells(matrix, a, b)})
                /\ agents'[a].history["match_count"][round'] = agents'[a].match_count
                /\ agents'[a].history["happiness"][round'] = agents'[a].happiness
      ]_vars

\* A round has resolved a match between two agents that liked each other in it,
\* and the snapshot of the round shows the match and its happiness.
C11_Witness ==
    /\ last_call.op = "run_new_round"
    /\ \E a \in DOMAIN round_likes : \E b \in round_likes[a] :
          /\ b \in DOMAIN round_likes
          /\ a \in round_likes[b]
          /\ agents[a].history["match_count"][round] > 0
          /\ agents[a].history["happiness"][round] > 0
          /\ round_passes[a] # {}

\* The snapshots log_agents has taken: the rounds that ran to their end.
CompletedRounds ==
    LET history == agents[CHOOSE a \in agent_ids : TRUE].history
    IN IF "match_count" \in DOMAIN history
       THEN Cardinality(DOMAIN history["match_count"]) ELSE 0

\* A step in which run_new_round runs to its end.
CompletedStep == last_call'.op = "run_new_round" /\ CompletedRounds' = CompletedRounds + 1

\* A step in which run_new_round is left by an exception of a strategy call.
RaiseStep ==
    /\ last_call'.op = "run_new_round_raised"
    /\ round' # round \/ new_round_calls' # new_round_calls

\* C12: the round counter starts at 0 and never decreases; a step changes it
\* only when run_new_round runs to its end, and then by exactly one; and
\* get_info().rounds is the number of rounds that ran to their end.
C12_RoundCountsCompleted ==
    /\ [](GetInfo.rounds = CompletedRounds /\ round >= 0)
    /\ [][ round' = IF CompletedStep THEN round + 1 ELSE round ]_vars

\* C13: when run_new_round is left by an exception of a strategy call, the
\* round counter has the value it had before the call.
C13_RoundKeptOnRaise ==
    [][ RaiseStep => round' = round ]_vars

\* C14: in a round every agent that is not eliminated has its new_round_callback
\* called exactly once, the agents without an available candidate included, and
\* nobody's twice; and in every call of run_new_round, also one a strategy
\* leaves by an exception, an agent whose strategy was asked about a candidate
\* had its new_round_callback called before, in the same call.
C14_HookOnceBeforeAssessment ==
    [][ round' = round + 1 =>
          /\ \A a \in agent_ids :
                /\ new_round_calls'[a] \in {new_round_calls[a], new_round_calls[a] + 1}
                /\ consulted'[a] > 0 => new_round_calls'[a] = new_round_calls[a] + 1
          /\ CompletedStep =>
                \A a \in agent_ids \ eliminated_agents :
                   new_round_calls'[a] = new_round_calls[a] + 1
      ]_vars

\* In the second round an agent with no candidate left has had its callback
\* called all the same, and the strategy of the agent after it raises when it
\* is asked about its candidate, its callback called before.
C14_Witness ==
    /\ round = 2
    /\ last_call.op = "run_new_round_raised"
    /\ last_call.raised_in = "is_interested"
    /\ consulted[last_call.agent] > 0
    /\ new_round_calls[last_call.agent] = 2
    /\ \E a \in agent_ids \ eliminated_agents :
          /\ a < last_call.agent
          /\ AllAvailable(a) = {}
          /\ candidates_details[a] = <<>>
          /\ Cardinality(GetAssessedCandidates(agents[a])) = NumAgents - 1
          /\ new_round_calls[a] = 2

\* C15: the cells of the interaction matrix are written once. A cell that is
\* liked stays liked and a cell that is passed stays passed, over every round
\* and every elimination: no step resets a set cell or changes its value.
C15_CellsWriteOnce ==
    [][ \A a, b \in agent_ids :
           matrix[<<a, b>>] # 0 => matrix'[<<a, b>>] = matrix[<<a, b>>]
      ]_vars

\* After an elimination, a second round writes a liked cell in the row of an
\* agent whose passed cell of the first round stays as it is, and a liked cell
\* of the first round stays too.
C15_Witness ==
    /\ round = 2
    /\ last_call.op = "run_new_round"
    /\ eliminations > 0
    /\ \E a \in DOMAIN round_likes, b, c \in agent_ids :
          /\ matrix[<<a, b>>] = -1
          /\ b \notin round_passes[a]
          /\ matrix[<<a, c>>] = 1
          /\ c \in round_likes[a]
    /\ \E a \in agent_ids : \E b \in agent_ids :
          /\ matrix[<<a, b>>] = 1
          /\ a \notin DOMAIN round_likes \/ b \notin round_likes[a]

\* C16: in a round, in both matchers, the candidates presented to an agent that
\* is not eliminated are min(recommendation_limit, |available|) distinct agents,
\* all of them available: in the population, not assessed by the agent before,
\* not the agent itself and not eliminated.
C16_RecommendationSize ==
    [][ RoundStep =>
          \A a \in agent_ids \ eliminated_agents :
             LET presented == candidates_details'[a]
                 available ==
                     ((agent_ids \ (agents[a].liked \cup agents[a].passed)) \ {a})
                     \ eliminated_agents
             IN /\ Len(presented) =
                      Min2(config.recommendation_limit, Cardinality(available))
                /\ Cardinality(Range(presented)) = Len(presented)
                /\ Range(presented) \subseteq available
      ]_vars

\* In the second round of a rating-based matcher with non-strict
\* recommendations and a limit of two, an agent with one candidate left is
\* presented that one, and another agent is presented nobody.
C16_Witness ==
    /\ round = 2
    /\ last_call.op = "run_new_round"
    /\ config.variant = "ranked"
    /\ ~config.strict_recommendations
    /\ config.recommendation_limit = 2
    /\ \E a, b \in DOMAIN round_likes :
          /\ Len(candidates_details[a]) = 1
          /\ Cardinality(GetAssessedCandidates(agents[a])) = 2
          /\ candidates_details[b] = <<>>

\* The distance get_available_candidates ranks by.
RatingDistance(a, b) == Abs(ratings[b] - ratings[a])

CallStep(fn) == call.fn = fn /\ ~call.done /\ call'.done

\* Whether process_passes skips the rating update of a pass of a on b.
PassSkipped(a, b) ==
    \/ ~config.rank_passes
    \/ ~config.rank_pass_from_lower /\ ratings[a] < ratings[b]
    \/ ~config.rank_pass_from_higher /\ ratings[a] > ratings[b]

\* C18: process_passes of the rating-based matcher, for a pass of a on b, marks
\* the cell passed and rates a as the winner over b (a's mean rises, b's falls,
\* nobody else's moves), unless passes are not ranked, or a's rating is lower
\* than b's and credit-from-lower is disabled, or a's rating is higher and
\* credit-from-higher is disabled; then no rating moves. Each gate acts on its
\* own, whatever the other is set to.
C18_PassRatedUnlessGated ==
    [][ CallStep("process_passes") /\ Cardinality(call.targets) = 1 =>
          LET a == call.agent
              b == CHOOSE t \in call.targets : TRUE
          IN /\ matrix'[<<a, b>>] = -1
             /\ IF PassSkipped(a, b)
                THEN ratings' = ratings
                ELSE /\ ratings'[a] = Rate1vs1(ratings[a], ratings[b], FALSE)[1]
                     /\ ratings'[b] = Rate1vs1(ratings[a], ratings[b], FALSE)[2]
                     /\ ratings'[a] > ratings[a]
                     /\ ratings'[b] < ratings[b]
                     /\ \A c \in agent_ids \ {a, b} : ratings'[c] = ratings[c]
      ]_vars

\* With credit-from-lower disabled and credit-from-higher enabled, a pass by the
\* higher-rated agent has been rated.
C18_Witness ==
    /\ call.fn = "process_passes"
    /\ call.done
    /\ config.rank_passes
    /\ ~config.rank_pass_from_lower
    /\ config.rank_pass_from_higher
    /\ \E b \in agent_ids :
          /\ call.targets = {b}
          /\ matrix[<<call.agent, b>>] = -1
          /\ ratings[call.agent] > ratings[b] + 2
          /\ ratings[b] < PriorMu - 1

\* The rating means after one like of a on b.
RatedLike(rts, a, b) ==
    LET rated == Rate1vs1(rts[b], rts[a], config.likes_as_draws)
    IN [c \in agent_ids |-> IF c = b THEN rated[1] ELSE IF c = a THEN rated[2] ELSE rts[c]]

\* C19: process_likes of the rating-based matcher rates every like once, the
\* liked agent as the winner and the liking agent as the loser, or as a draw
\* with likes_as_draws, and leaves every other rating as it is; the like is
\* rated whether or not it completes a match, which is registered after it.
C19_LikeRatedOnce ==
    [][ CallStep("process_likes") =>
          LET a == call.agent
          IN /\ \A b \in call.targets : matrix'[<<a, b>>] = 1
             /\ waiting_matches' =
                   {SortedPair(a, b) : b \in {t \in call.targets : matrix[<<t, a>>] = 1}}
             /\ \A b \in call.targets :
                   call.targets = {b} =>
                      /\ ratings' = RatedLike(ratings, a, b)
                      /\ ~config.likes_as_draws =>
                            ratings'[b] > ratings[b] /\ ratings'[a] < ratings[a]
             /\ \E b, c \in call.targets :
                   /\ call.targets = {b, c}
                   /\ ratings' = IF b = c THEN RatedLike(ratings, a, b)
                                 ELSE RatedLike(RatedLike(ratings, a, b), a, c)
             /\ \A c \in agent_ids \ (call.targets \cup {a}) : ratings'[c] = ratings[c]
      ]_vars

\* A like that completes a match has been rated as a win of the liked agent:
\* the pair is waiting and the means of the two, equal before, are apart.
C19_Witness ==
    /\ call.fn = "process_likes"
    /\ call.done
    /\ ~config.likes_as_draws
    /\ \E b \in agent_ids :
          /\ call.targets = {b}
          /\ SortedPair(call.agent, b) \in waiting_matches
          /\ ratings[b] = PriorMu + 2
          /\ ratings[call.agent] = PriorMu - 2

\* The pairs whose match has been resolved: get_matched called once on each
\* agent of the pair with the other.
ResolvedMatches ==
    {p \in agent_ids \X agent_ids :
       p[1] < p[2] /\ get_matched_calls[p] = 1 /\ get_matched_calls[<<p[2], p[1]>>] = 1}

\* C20: NumAgents agents whose strategies like everybody they are asked about,
\* with recommendation_limit and like_allowance at least NumAgents - 1: after
\* the first round every agent has liked exactly the other NumAgents - 1 agents
\* and passed nobody, NumAgents * (NumAgents - 1) / 2 matches are resolved, one
\* for each pair, and every agent's match_count is NumAgents - 1.
C20_EverybodyLikesEverybody ==
    ( /\ round = 1
      /\ last_call.op = "run_new_round"
      /\ eliminated_agents = {}
      /\ config.recommendation_limit >= NumAgents - 1
      /\ \A a \in agent_ids :
            /\ agents[a].like_allowance >= NumAgents - 1
            /\ round_passes[a] = {} )
    => /\ \A a \in agent_ids :
             /\ agents[a].liked = agent_ids \ {a}
             /\ agents[a].passed = {}
             /\ agents[a].matched = agent_ids \ {a}
             /\ agents[a].match_count = NumAgents - 1
             /\ agents[a].history["match_count"][1] = NumAgents - 1
       /\ Cardinality(ResolvedMatches) = (NumAgents * (NumAgents - 1)) \div 2
       /\ \A p \in agent_ids \X agent_ids :
             get_matched_calls[p] = IF p[1] = p[2] THEN 0 ELSE 1

\* The first round of such a population: nobody passed and every pair matched.
C20_Witness ==
    /\ round = 1
    /\ last_call.op = "run_new_round"
    /\ eliminated_agents = {}
    /\ config.recommendation_limit >= NumAgents - 1
    /\ \A a \in agent_ids :
          /\ agents[a].like_allowance >= NumAgents - 1
          /\ round_passes[a] = {}
          /\ Cardinality(round_likes[a]) = NumAgents - 1
    /\ Cardinality(ResolvedMatches) = (NumAgents * (NumAgents - 1)) \div 2

\* A step in which eliminate_bottom is called with every agent eliminated.
EmptyEliminationStep ==
    last_call'.op = "eliminate_bottom_empty" /\ eliminations' = eliminations + 1

\* C21: with every agent eliminated, eliminate_bottom returns without raising
\* and leaves the elimination set and the rest of the matcher's and the agents'
\* state as they were.
C21_EmptyEliminationNoOp ==
    [][ EmptyEliminationStep =>
          /\ ~last_call'.raised
          /\ UNCHANGED <<agents, round, matrix, waiting_matches, eliminated_agents,
                         ratings, rating_logs>>
      ]_vars

\* An agent without its history.
WithoutHistory(agent) == [agent EXCEPT !.history = <<>>]

\* C22 as stated: with every agent eliminated, run_new_round returns without
\* raising and changes nothing of the matcher's state nor of the agents'.
C22_AllEliminatedRoundNoOp ==
    [][ round' = round + 1 /\ eliminated_agents = agent_ids =>
          /\ last_call'.op = "run_new_round"
          /\ UNCHANGED <<agents, round, matrix, waiting_matches, eliminated_agents,
                         ratings, rating_logs>>
      ]_vars

\* C22, amended: with every agent eliminated, run_new_round returns without
\* raising; it calls no strategy and leaves the matrix, the ratings, the pending
\* matches, the elimination set and every agent's fields but its history as
\* they were; it does increment the round counter and logs, for every agent,
\* its unchanged match_count and happiness (and its rating, in the rating-based
\* matcher) under the new round id, keeping the earlier snapshots.
C22_AllEliminatedRoundOnlyLogs ==
    [][ round' = round + 1 /\ eliminated_agents = agent_ids =>
          /\ last_call'.op = "run_new_round"
          /\ UNCHANGED <<matrix, waiting_matches, eliminated_agents, ratings,
                         new_round_calls, get_matched_calls>>
          /\ \A a \in agent_ids :
                /\ consulted'[a] = 0
                /\ WithoutHistory(agents'[a]) = WithoutHistory(agents[a])
                /\ \A v \in {"match_count", "happiness"} :
                      /\ v \in DOMAIN agents'[a].history
                      /\ round' \in DOMAIN agents'[a].history[v]
                /\ agents'[a].history["match_count"][round'] = agents[a].match_count
                /\ agents'[a].history["happiness"][round'] = agents[a].happiness
                /\ \A v \in DOMAIN agents[a].history :
                      \A r \in DOMAIN agents[a].history[v] :
                         agents'[a].history[v][r] = agents[a].history[v][r]
                /\ config.variant = "ranked" =>
                      /\ rating_logs'[a][round'] = ratings[a]
                      /\ \A r \in DOMAIN rating_logs[a] :
                            rating_logs'[a][r] = rating_logs[a][r]
      ]_vars

\* A second round run with every agent eliminated after a first round in which
\* two agents matched: the second snapshot repeats the first.
C22_Witness ==
    /\ round = 2
    /\ last_call.op = "run_new_round"
    /\ eliminated_agents = agent_ids
    /\ \A a \in agent_ids : new_round_calls[a] = 1
    /\ \E a \in agent_ids :
          /\ agents[a].match_count > 0
          /\ agents[a].history["match_count"][2] = agents[a].history["match_count"][1]
          /\ agents[a].history["happiness"][2] = agents[a].history["happiness"][1]

\* C23: a matcher built from agents whose ids are not exactly 0 .. n-1 is
\* refused by the constructor, which raises.
C23_BadIdsRejected ==
    (call.fn = "__init__" /\ call.done /\ Range(call.ids) # 0 .. (Len(call.ids) - 1))
        => call.self.raised

\* The variables a get_logs call asks for: the listed ones, or all the logged.
Requested ==
    IF call.variables.given THEN Range(call.variables.value)
    ELSE DOMAIN call.self.history

\* The requested variables that have a log (under the requested round, if one
\* is requested).
Existing ==
    {v \in Requested :
        /\ v \in DOMAIN call.self.history
        /\ call.log_id.given => call.log_id.value \in DOMAIN call.self.history[v]}

\* C24: get_logs never raises; with neither argument it returns the whole
\* history; otherwise it returns exactly the requested variables that have a log
\* (under the requested round, if any), each with its logged value of that round
\* or with all its rounds; what has no log is left out.
C24_GetLogsOnlyExisting ==
    (call.fn = "get_logs" /\ call.done) =>
        /\ ~call.result.raised
        /\ (~call.log_id.given /\ ~call.variables.given) =>
              call.result.value = call.self.history
        /\ DOMAIN call.result.value = Existing
        /\ \A v \in Existing :
              call.result.value[v] =
                 IF call.log_id.given THEN call.self.history[v][call.log_id.value]
                 ELSE call.self.history[v]

\* A call for two variables and a round where only one of the two has a log
\* under that round: the result holds that one alone.
C24_Witness ==
    /\ call.fn = "get_logs" /\ call.done
    /\ call.log_id.given /\ call.variables.given
    /\ Cardinality(Requested) = 2
    /\ Requested \subseteq DOMAIN call.self.history
    /\ Cardinality(DOMAIN call.result.value) = 1
    /\ ~call.result.raised

\* C25: the history is append-only: a value logged for a variable under a round
\* is still there, unchanged, after every later round and elimination; and
\* logging the round just run once more, the agent's state being what it was,
\* gives the same history.
C25_HistoryAppendOnly ==
    /\ [](round > 0 =>
            \A a \in agent_ids :
               LogState(agents[a], round, <<"match_count", "happiness">>) = agents[a])
    /\ [][ \A a \in agent_ids :
              \A v \in DOMAIN agents[a].history :
                 /\ v \in DOMAIN agents'[a].history
                 /\ \A r \in DOMAIN agents[a].history[v] :
                       /\ r \in DOMAIN agents'[a].history[v]
                       /\ agents'[a].history[v][r] = agents[a].history[v][r]
         ]_vars

\* After the second round an agent that matched once in each round has both
\* snapshots: one match under round 1, two under round 2.
C25_Witness ==
    /\ round = 2
    /\ \E a \in agent_ids :
          /\ DOMAIN agents[a].history["match_count"] = {1, 2}
          /\ agents[a].history["match_count"][1] = 1
          /\ agents[a].history["match_count"][2] = 2
          /\ agents[a].history["happiness"][1] < agents[a].history["happiness"][2]

\* The accumulated happiness never decreases, and get_matched adds the product
\* to it.
HappinessAccumulates ==
    [][ call'.fn = "get_matched" /\ call.fn = "get_matched" =>
          /\ call'.self.happiness >= call.self.happiness
          /\ call'.self.happiness =
                call.self.happiness
                + call'.contributions[Len(call'.contributions)] \div 100000
      ]_vars

\* C26 as stated: of two successive matches of equal underlying happiness the
\* second contributes strictly less than the first, and the accumulated
\* happiness never decreases.
C26_SecondStrictlySmaller ==
    /\ [](call.fn = "get_matched" =>
            \A i \in 1 .. Len(call.contributions) - 1 :
               call.underlying[i + 1] = call.underlying[i] =>
                  call.contributions[i + 1] < call.contributions[i])
    /\ HappinessAccumulates

\* C26, amended: the decay uses the match_count after the increment (the first
\* match already contributes less than its underlying happiness); of two
\* successive matches of equal positive underlying happiness the second
\* contributes strictly less than the first; when the underlying happiness is
\* zero (a genuine agent matched with impostors) both contributions are zero;
\* the accumulated happiness never decreases.
C26_SecondSmallerWhenPositive ==
    /\ [](call.fn = "get_matched" =>
            /\ \A i \in 1 .. Len(call.contributions) :
                  /\ call.underlying[i] > 0 =>
                        /\ call.contributions[i] > 0
                        /\ call.contributions[i] < call.underlying[i] * 100000
                  /\ call.underlying[i] = 0 => call.contributions[i] = 0
            /\ \A i \in 1 .. Len(call.contributions) - 1 :
                  (call.underlying[i + 1] = call.underlying[i] /\ call.underlying[i] > 0)
                     => call.contributions[i + 1] < call.contributions[i])
    /\ [][ call'.fn = "get_matched" /\ call.fn = "get_matched" =>
             /\ call'.self.happiness >= call.self.happiness
             /\ call'.self.match_count = call.self.match_count + 1
             /\ call'.self.happiness =
                   call.self.happiness
                   + call'.contributions[Len(call'.contributions)] \div 100000
         ]_vars

\* An agent matched twice with the same positive underlying happiness.
C26_Witness ==
    /\ call.fn = "get_matched"
    /\ Len(call.contributions) = 2
    /\ call.underlying[1] = call.underlying[2]
    /\ call.underlying[1] > 0
    /\ call.contributions[2] < call.contributions[1]
    /\ call.self.match_count = 2

\* A calculator whose rewards do not tell a match from a mismatch.
SymmetricTables(calculator) ==
    \A i \in DOMAIN calculator.attribute_match_rewards :
       calculator.attribute_match_rewards[i][TRUE]
          = calculator.attribute_match_rewards[i][FALSE]

\* C27 as stated: compatibility(a, b) equals compatibility(b, a) only when the
\* calculator's tables are symmetric.
C27_SymmetricOnlyWithSymmetricTables ==
    (call.fn = "get_compatibility" /\ call.done /\ call.value = call.swapped)
        => SymmetricTables(call.calculator)

\* C27, amended: for two attribute sequences of equal length
\* compatibility(a, b) equals compatibility(b, a) whatever the weights and the
\* rewards are: every reward is chosen by whether the two attributes are equal.
C27_AlwaysSymmetric ==
    (call.fn = "get_compatibility" /\ call.done) => call.value = call.swapped

\* A calculator that rewards a match and a mismatch differently, applied to two
\* types that agree on one attribute and differ on the other.
C27_Witness ==
    /\ call.fn = "get_compatibility" /\ call.done
    /\ Len(call.type_1) = 2
    /\ call.type_1[1] = call.type_2[1]
    /\ call.type_1[2] # call.type_2[2]
    /\ \A i \in 1 .. 2 :
          call.calculator.attribute_match_rewards[i][TRUE]
             # call.calculator.attribute_match_rewards[i][FALSE]
    /\ call.value = call.swapped
    /\ call.value > 0

\* C28: the compatibility calculate_happiness uses is the calculator's sum over
\* every position of the two agents' combined observable and hidden
\* attributes.
C28_CompatibilityOverAllAttributes ==
    (/\ call.fn = "calculate_happiness" /\ call.done
     /\ HappinessIsComputed(call.self, call.matched_agent))
        => HappinessCompatibility(call.self, call.matched_agent)
              = GetCompatibility(attribute_weights, attribute_match_rewards,
                    call.self.observable_attributes \o call.self.hidden_attributes,
                    call.matched_agent.observable_attributes
                       \o call.matched_agent.hidden_attributes)

\* The strategy the last call found, after it noted the agent's premium status.
Noted == NotePremium(call.last.before, call.agent_is_premium)

\* C29: once AmbitiousHR has observed more candidates than its rejection
\* threshold, it likes every candidate that is strictly more attractive than
\* all the candidates observed before; its observations hold every candidate
\* it was asked about, whatever rounds began in between.
C29_AmbitiousLikesBetter ==
    (/\ call.fn = "strategy" /\ call.self.name = "Ambitious HR"
     /\ call.last.op = "is_interested")
        => /\ Len(call.self.observed_values) = call.asked
           /\ (/\ Len(call.last.before.observed_values) > RejectionCount(Noted)
               /\ \A v \in Range(call.last.before.observed_values) :
                     call.last.attractiveness > v)
                 => call.last.answer = "True"

\* C30: HR passes the first int(threshold% * estimated_daily_candidates)
\* candidates of a round and records them; afterwards it records nothing and
\* likes a candidate exactly when it is strictly more attractive than every
\* candidate recorded in the round; the round-start hook empties the record;
\* the estimate is doubled once, at the first question, for a premium agent and
\* never otherwise.
C30_HRObservesThenLikes ==
    (call.fn = "strategy" /\ call.self.name = "HR") =>
        /\ call.self.estimated_daily_candidates =
              IF call.agent_is_premium /\ call.asked > 0
              THEN 2 * call.estimated ELSE call.estimated
        /\ call.last.op = "new_round_callback" => call.self.observed_values = <<>>
        /\ call.last.op = "is_interested" =>
              IF Len(call.last.before.observed_values) < RejectionCount(Noted)
              THEN /\ call.last.answer = "False"
                   /\ call.self.observed_values =
                         Append(call.last.before.observed_values,
                                call.last.attractiveness)
              ELSE /\ call.self.observed_values = call.last.before.observed_values
                   /\ call.last.answer \in {"True", "None"}
                   /\ call.last.answer = "True" <=>
                         \A v \in Range(call.last.before.observed_values) :
                            call.last.attractiveness > v

\* C31: after SelfReflective's match_callback the agent's
\* estimated_attractiveness, the field is_interested and calculate_happiness
\* read, holds the level the strategy has just estimated.
C31_EstimateRevised ==
    (call.fn = "self_reflective" /\ call.last.op = "match_callback")
        => call.agent.estimated_attractiveness = call.last.estimate

C34_EliminatedFrozen ==
    [][ \A a \in eliminated_agents :
           /\ agents'[a].matched = agents[a].matched
           /\ agents'[a].match_count = agents[a].match_count
           /\ agents'[a].happiness = agents[a].happiness
           /\ agents'[a].liked = agents[a].liked
           /\ agents'[a].passed = agents[a].passed
           /\ ratings'[a] = ratings[a]
           /\ \A b \in agent_ids :
                 /\ a \in agents'[b].liked => a \in agents[b].liked
                 /\ a \in agents'[b].passed => a \in agents[b].passed
                 /\ matrix'[<<a, b>>] = matrix[<<a, b>>]
                 /\ matrix'[<<b, a>>] = matrix[<<b, a>>]
      ]_vars

\* An agent that was liked in the first round by an agent it had not assessed,
\* was eliminated before the second round and sat that round out: the like is
\* still one-sided, and the agent that liked it is still in the game.
C34_Witness ==
    /\ round = 2
    /\ last_call.op = "run_new_round"
    /\ \E a \in eliminated_agents, b \in agent_ids \ eliminated_agents :
          /\ new_round_calls[a] = 1
          /\ new_round_calls[b] = 2
          /\ a \in agents[b].liked
          /\ b \notin GetAssessedCandidates(agents[a])
          /\ agents[a].matched = {}
          /\ config.variant = "ranked"

\* C35: every eliminate_bottom call made while somebody is left eliminates at
\* least one further agent, the ones with the least metric among them, whatever
\* the threshold; so k calls have eliminated at least k agents and NumAgents
\* calls everybody; threshold 100 eliminates everybody left in one call.
C35_EliminationProgress ==
    /\ [](/\ Cardinality(eliminated_agents) >= eliminations
          /\ eliminations >= NumAgents => eliminated_agents = agent_ids)
    /\ [][ eliminations' = eliminations + 1 =>
             LET metric == Metric(last_call'.using_ratings)
                 active == agent_ids \ eliminated_agents
             IN /\ eliminated_agents \subseteq eliminated_agents'
                /\ eliminated_agents' # eliminated_agents
                /\ \A a \in active :
                      metric[a] = MinOf(metric, active) => a \in eliminated_agents'
                /\ last_call'.bottom_threshold = 100 => eliminated_agents' = agent_ids
         ]_vars

\* NumAgents calls at threshold 0 on agents of different happiness, each
\* eliminating one agent.
C35_Witness ==
    /\ eliminations = NumAgents
    /\ eliminated_agents = agent_ids
    /\ last_call.op = "eliminate_bottom"
    /\ last_call.bottom_threshold = 0

\* In a round every agent in the game that has a candidate left assesses at
\* least one new candidate; once nobody in the game has a candidate left a round
\* changes no liked, passed or matched set and no cell.
RoundsProgress ==
    [][ RoundStep =>
          /\ \A a \in agent_ids \ eliminated_agents :
                AllAvailable(a) # {} =>
                   /\ GetAssessedCandidates(agents[a])
                         \subseteq GetAssessedCandidates(agents'[a])
                   /\ GetAssessedCandidates(agents'[a])
                         # GetAssessedCandidates(agents[a])
          /\ (\A a \in agent_ids \ eliminated_agents : AllAvailable(a) = {}) =>
                /\ matrix' = matrix
                /\ \A a \in agent_ids :
                      /\ agents'[a].liked = agents[a].liked
                      /\ agents'[a].passed = agents[a].passed
                      /\ agents'[a].matched = agents[a].matched
      ]_vars

\* C36 as stated: rounds make progress, and after NumAgents - 1 rounds the
\* available set of every agent is empty.
C36_EveryAvailableSetEmpties ==
    /\ [](round >= NumAgents - 1 => \A a \in agent_ids : AllAvailable(a) = {})
    /\ RoundsProgress

\* C36, amended: in a round every agent in the game that has a candidate left
\* assesses at least one new candidate; after NumAgents - 1 rounds the available
\* set of every agent that is not eliminated is empty, and further rounds change
\* no liked, passed or matched set and no cell. (An eliminated agent keeps the
\* candidates it had not assessed.)
C36_ActiveAvailableSetsEmpty ==
    /\ [](round >= NumAgents - 1 =>
             \A a \in agent_ids \ eliminated_agents : AllAvailable(a) = {})
    /\ [][ RoundStep =>
             /\ \A a \in agent_ids \ eliminated_agents :
                   AllAvailable(a) # {} =>
                      /\ GetAssessedCandidates(agents[a])
                            \subseteq GetAssessedCandidates(agents'[a])
                      /\ Cardinality(GetAssessedCandidates(agents'[a]))
                            > Cardinality(GetAssessedCandidates(agents[a]))
             /\ round >= NumAgents - 1 =>
                   /\ matrix' = matrix
                   /\ ratings' = ratings
                   /\ \A a \in agent_ids :
                         /\ agents'[a].liked = agents[a].liked
                         /\ agents'[a].passed = agents[a].passed
                         /\ agents'[a].matched = agents[a].matched
                         /\ consulted'[a] = 0
         ]_vars

\* A round run after everybody has assessed everybody else, one candidate a
\* round, with nobody eliminated.
C36_Witness ==
    /\ round = NumAgents
    /\ last_call.op = "run_new_round"
    /\ eliminated_agents = {}
    /\ config.recommendation_limit = 1
    /\ \A a \in agent_ids : GetAssessedCandidates(agents[a]) = agent_ids \ {a}
    /\ \A a \in agent_ids : new_round_calls[a] = NumAgents

\* C37: the candidates assess_candidates is given are in ascending id order,
\* whatever order the sample or the ranking had; the candidates assessed are the
\* first of the list, so the ones left unassessed when the allowance runs out
\* have higher ids than every assessed one.
C37_PopulationOrder ==
    (call.fn = "recommend" /\ call.done) =>
        LET c == call.candidates_details
            assessed == call.liked \cup call.passed
        IN /\ \A i, j \in 1 .. Len(c) : i < j => c[i] < c[j]
           /\ assessed \subseteq Range(c)
           /\ \A x \in assessed, y \in Range(c) \ assessed : x < y
           /\ Range(c) \ assessed # {} => agents[call.agent].remaining_likes = 0

\* The ranking puts the agent with the higher id first, the list given to
\* assess_candidates has the lower id first; the agent, with one like to give,
\* likes the first of the list and the higher id is left unassessed.
C37_Witness ==
    /\ call.fn = "recommend" /\ call.done
    /\ config.variant = "ranked"
    /\ config.strict_recommendations
    /\ \E x, y \in agent_ids :
          /\ x < y
          /\ SortedRatings(call.agent, agent_ids \ {call.agent}) = <<y, x>>
          /\ call.candidates_details = <<x, y>>
          /\ call.liked = {x}
          /\ call.passed = {}
          /\ y \notin GetAssessedCandidates(agents[call.agent])

\* The round ids under which agent a has a snapshot of variable v.
LoggedRounds(ags, a, v) ==
    IF v \in DOMAIN ags[a].history THEN DOMAIN ags[a].history[v] ELSE {}

\* C38: after every run_new_round that runs to its end, with round id r, every
\* agent of the population, eliminated or not, has a match_count and a happiness
\* snapshot under each round id 1..r and, in the rating-based matcher, a rating
\* log entry under each of them; and the snapshot an eliminated agent gets
\* repeats the match_count, happiness and rating it had when it was eliminated.
C38_EveryRoundLogged ==
    [][ last_call'.op = "run_new_round" /\ round' = round + 1 =>
          \A a \in agent_ids :
             /\ \A v \in {"match_count", "happiness"} :
                   LoggedRounds(agents', a, v) = 1 .. round'
             /\ config.variant = "ranked" => DOMAIN rating_logs'[a] = 1 .. round'
             /\ a \in eliminated_agents =>
                   /\ agents'[a].history["match_count"][round'] = agents[a].match_count
                   /\ agents'[a].history["happiness"][round'] = agents[a].happiness
                   /\ agents'[a].match_count = agents[a].match_count
                   /\ agents'[a].happiness = agents[a].happiness
                   /\ config.variant = "ranked" =>
                         /\ rating_logs'[a][round'] = ratings[a]
                         /\ ratings'[a] = ratings[a]
      ]_vars

\* An agent without the fields named.
Without(agent, fields) == [f \in DOMAIN agent \ fields |-> agent[f]]

\* What an aborted run_new_round leaves as it was, the round counter aside: the
\* matrix, the pending matches, the ratings and their log, the elimination set
\* and the get_matched calls; of every agent, every field but remaining_likes,
\* liked and passed (matched, match_count, happiness and history among them);
\* and liked and passed of the agents whose turn had not been completed, the
\* agent whose strategy raised included. The sets of the others only grow.
AbortFrame ==
    /\ UNCHANGED <<config, matrix, waiting_matches, eliminated_agents, ratings,
                   rating_logs, get_matched_calls>>
    /\ \A a \in agent_ids :
          /\ Without(agents'[a], {"remaining_likes", "liked", "passed"})
                = Without(agents[a], {"remaining_likes", "liked", "passed"})
          /\ agents[a].liked \subseteq agents'[a].liked
          /\ agents[a].passed \subseteq agents'[a].passed
          /\ (a >= last_call'.agent \/ a \in eliminated_agents) =>
                /\ agents'[a].liked = agents[a].liked
                /\ agents'[a].passed = agents[a].passed

\* C39: when run_new_round is left by an exception of a strategy call made
\* while the agents are being assessed, the matrix, the pending matches, the
\* ratings and every agent's matched, match_count, happiness and history are as
\* they were before the call, and nothing differs from before the call but the
\* agents' remaining_likes and the liked and passed sets of the agents whose
\* turn came before the failure.
C39_AbortedRoundFrame ==
    [][ RaiseStep => AbortFrame /\ round' = round ]_vars

====
